---- MODULE Spec2Model ----
(***************************************************************************)
(* Turn-resolution core of the roguelike: the movement planner             *)
(* (roguelike_core/src/movement.rs) over a tile map with walls on the      *)
(* edges between tiles and a table of entities, and the behaviour state    *)
(* machine of the monsters (roguelike_core/src/ai.rs) over the same map    *)
(* and a table of objects.                                                 *)
(*                                                                         *)
(* Positions are pairs <<x, y>>; y grows downwards (Direction::Down is     *)
(* (0, 1)).  Option<T> is a sequence: None is <<>> and Some(v) is <<v>>.   *)
(***************************************************************************)
EXTENDS Integers, Sequences, FiniteSets, TLC

VARIABLES
    map,          \* GameData.map: width, height, edge walls, blocked tiles
    entities,     \* GameData.entities: pos, blocks, move_mode per entity id
    stabs,        \* pairs <<attacker, target>> for which can_stab answers true
    call,         \* the last operation run and its arguments
    delta_pos,    \* calculate_move: the reach's offset for the direction
    move_result,  \* the MoveResult of the last check_collision
    resolved,     \* calculate_move: the movement chosen before the no-op filter
    movement,     \* calculate_move: the Option<Movement> returned
    objects,      \* GameData.objects of ai.rs: the fields of each object
    sounds,       \* the positions of the sound events in the world
    msg_log,      \* MsgLog: the messages logged so far
    turn,         \* ai_take_turn: the Action decided for the monster
    ai_round,     \* the objects that take their turns in order, and how many did
    momentum,     \* a Momentum value: mx, my, max
    momentum_calls, \* the calls made on the Momentum since it was created
    reach_offsets, \* the Vec<Pos> returned by Reach::offsets / Reach::reachables
    game          \* what handle_input reads and writes: the player, the items, the settings

ai_vars == <<objects, sounds, msg_log, turn, ai_round>>

value_vars == <<momentum, momentum_calls, reach_offsets, game>>

vars == <<map, entities, stabs, call, delta_pos, move_result, resolved, movement,
          objects, sounds, msg_log, turn, ai_round, momentum, momentum_calls,
          reach_offsets, game>>

-----------------------------------------------------------------------------
(* Bounds of the model *)

\* largest distance of a reach handed to calculate_move, and the length of
\* the stretch in front of the mover on which obstacles are placed
MaxDist == 3

\* size of the map
MapWidth == 8
MapHeight == 8

-----------------------------------------------------------------------------
(* Option, positions *)

None == <<>>
Some(v) == <<v>>

\* no round of turns is under way
NoRound == [ids |-> <<>>, done |-> 0]

add_pos(a, b) == <<a[1] + b[1], a[2] + b[2]>>

Abs(n) == IF n < 0 THEN 0 - n ELSE n
signum(n) == IF n > 0 THEN 1 ELSE IF n < 0 THEN 0 - 1 ELSE 0
Max(a, b) == IF a > b THEN a ELSE b

\* floor of the square root
RECURSIVE ISqrtFrom(_, _)
ISqrtFrom(n, r) == IF (r + 1) * (r + 1) > n THEN r ELSE ISqrtFrom(n, r + 1)

\* utils::distance: Euclidean distance truncated to an integer (it is the key
\* of min_by_key in ai.rs, so its type is an ordered integer)
distance(a, b) ==
    ISqrtFrom((a[1] - b[1]) * (a[1] - b[1]) + (a[2] - b[2]) * (a[2] - b[2]), 0)

\* division rounding half away from zero, for the rasterised line
RoundDiv(a, n) ==
    IF a >= 0 THEN (2 * a + n) \div (2 * n) ELSE 0 - ((2 * (0 - a) + n) \div (2 * n))

\* utils::line_inclusive: the rasterised line from start to end, without the
\* start and with the end
line_inclusive(start, end) ==
    LET dx == end[1] - start[1]
        dy == end[2] - start[2]
        n  == Max(Abs(dx), Abs(dy))
    IN IF n = 0 THEN <<end>>
       ELSE [i \in 1..n |->
                <<start[1] + RoundDiv(i * dx, n), start[2] + RoundDiv(i * dy, n)>>]

\* utils::next_pos: the tile one step past the end of the move
next_pos(pos, delta) ==
    <<pos[1] + delta[1] + signum(delta[1]), pos[2] + delta[2] + signum(delta[2])>>

\* utils::move_next_to: the last point of the line from start before end
move_next_to(start, end) ==
    LET l == line_inclusive(start, end)
    IN IF distance(start, end) <= 1 \/ Len(l) < 2 THEN start ELSE l[Len(l) - 1]

-----------------------------------------------------------------------------
(* Direction, movement.rs 201-283 *)

Directions ==
    {"Left", "Right", "Up", "Down", "DownLeft", "DownRight", "UpLeft", "UpRight"}

horiz(dir) == dir \in {"Left", "Right", "Up", "Down"}

diag(dir) == dir \in {"DownLeft", "DownRight", "UpLeft", "UpRight"}

into_move(dir) ==
    CASE dir = "Left"      -> <<0 - 1, 0>>
      [] dir = "Right"     -> <<1, 0>>
      [] dir = "Up"        -> <<0, 0 - 1>>
      [] dir = "Down"      -> <<0, 1>>
      [] dir = "DownLeft"  -> <<0 - 1, 1>>
      [] dir = "DownRight" -> <<1, 1>>
      [] dir = "UpLeft"    -> <<0 - 1, 0 - 1>>
      [] dir = "UpRight"   -> <<1, 0 - 1>>

-----------------------------------------------------------------------------
(* Reach, movement.rs 285-456 *)

ReachKinds == {"Single", "Diag", "Horiz"}

Reach(kind, dist) == [kind |-> kind, dist |-> dist]

\* the body of each arm of move_with_reach that answers Some for all eight
all_moves(dist, neg_dist, move_action) ==
    CASE move_action = "Left"      -> Some(<<neg_dist, 0>>)
      [] move_action = "Right"     -> Some(<<dist, 0>>)
      [] move_action = "Up"        -> Some(<<0, neg_dist>>)
      [] move_action = "Down"      -> Some(<<0, dist>>)
      [] move_action = "DownLeft"  -> Some(<<neg_dist, dist>>)
      [] move_action = "DownRight" -> Some(<<dist, dist>>)
      [] move_action = "UpLeft"    -> Some(<<neg_dist, neg_dist>>)
      [] move_action = "UpRight"   -> Some(<<dist, neg_dist>>)

\* a Diag reach that also answers for the cardinal directions
move_with_reach_diag_any(reach, move_action) ==
    LET dist == reach.dist
        neg_dist == dist * (0 - 1)
    IN CASE reach.kind = "Single" -> all_moves(dist, neg_dist, move_action)
         [] reach.kind = "Diag" -> all_moves(dist, neg_dist, move_action)
         [] reach.kind = "Horiz" ->
                IF move_action \in {"DownLeft", "DownRight", "UpLeft", "UpRight"}
                THEN None
                ELSE all_moves(dist, neg_dist, move_action)

move_with_reach(reach, move_action) ==
    LET dist == reach.dist
        neg_dist == dist * (0 - 1)
    IN CASE reach.kind = "Single" -> all_moves(dist, neg_dist, move_action)
         [] reach.kind = "Diag" ->
                IF move_action \in {"Left", "Right", "Up", "Down"}
                THEN None
                ELSE all_moves(dist, neg_dist, move_action)
         [] reach.kind = "Horiz" ->
                IF move_action \in {"DownLeft", "DownRight", "UpLeft", "UpRight"}
                THEN None
                ELSE all_moves(dist, neg_dist, move_action)

-----------------------------------------------------------------------------
(* The map: tiles with a blocked flag and walls on their left and bottom     *)
(* edges.  left_wall of a tile is the edge towards the tile on its left,     *)
(* bottom_wall the edge towards the tile below it.                           *)

Walls == {"Empty", "ShortWall", "TallWall"}

is_within_bounds(pos) ==
    /\ pos[1] >= 0 /\ pos[1] < map.width
    /\ pos[2] >= 0 /\ pos[2] < map.height

is_blocked_tile(pos) == pos \in map.blocked

left_wall(pos) ==
    IF \E w \in map.walls : w.side = "left" /\ w.pos = pos
    THEN (CHOOSE w \in map.walls : w.side = "left" /\ w.pos = pos).typ
    ELSE "Empty"

bottom_wall(pos) ==
    IF \E w \in map.walls : w.side = "bottom" /\ w.pos = pos
    THEN (CHOOSE w \in map.walls : w.side = "bottom" /\ w.pos = pos).typ
    ELSE "Empty"

\* the wall edges between a tile and the next tile of a line, the next tile
\* being one of its eight neighbours: one edge for a step along an axis, the
\* two edges of the start tile that face the step for a diagonal one
edges_crossed(pos, target) ==
    LET sx == target[1] - pos[1]
        sy == target[2] - pos[2]
        xs == IF sx > 0 THEN {[side |-> "left", pos |-> <<pos[1] + 1, pos[2]>>]}
              ELSE IF sx < 0 THEN {[side |-> "left", pos |-> pos]}
              ELSE {}
        ys == IF sy > 0 THEN {[side |-> "bottom", pos |-> pos]}
              ELSE IF sy < 0 THEN {[side |-> "bottom", pos |-> <<pos[1], pos[2] - 1>>]}
              ELSE {}
    IN xs \cup ys

wall_at(edge) ==
    IF edge.side = "left" THEN left_wall(edge.pos) ELSE bottom_wall(edge.pos)

\* the strongest wall on the edges crossed by one step
wall_between(pos, target) ==
    LET found == {wall_at(e) : e \in edges_crossed(pos, target)}
    IN IF "TallWall" \in found THEN "TallWall"
       ELSE IF "ShortWall" \in found THEN "ShortWall"
       ELSE "Empty"

Blocked(start_pos, end_pos, blocked_tile, wall_type) ==
    [start_pos |-> start_pos, end_pos |-> end_pos,
     blocked_tile |-> blocked_tile, wall_type |-> wall_type]

RECURSIVE wall_scan(_, _)
wall_scan(positions, i) ==
    IF i >= Len(positions) THEN None
    ELSE LET pos == positions[i]
             target_pos == positions[i + 1]
         IN IF ~is_within_bounds(target_pos)
            THEN Some(Blocked(pos, target_pos, TRUE, "Empty"))
            ELSE IF is_blocked_tile(target_pos) \/ wall_between(pos, target_pos) # "Empty"
            THEN Some(Blocked(pos, target_pos, is_blocked_tile(target_pos),
                              wall_between(pos, target_pos)))
            ELSE wall_scan(positions, i + 1)

\* Map::is_blocked_by_wall: the first wall edge, blocked tile or map border
\* on the line from start_pos by (dx, dy): the last free position before it
\* (start_pos), the position behind it (end_pos) and its kind
is_blocked_by_wall(start_pos, dx, dy) ==
    wall_scan(<<start_pos>> \o line_inclusive(start_pos, add_pos(start_pos, <<dx, dy>>)), 1)

-----------------------------------------------------------------------------
(* Entities *)

EntityIds == DOMAIN entities.pos

\* GameData::has_blocking_entity: an entity that blocks and stands on pos
has_blocking_entity(pos) ==
    LET here == {id \in EntityIds : entities.pos[id] = pos /\ entities.blocks[id]}
    IN IF here = {} THEN None
       ELSE Some(CHOOSE id \in here : TRUE)

\* utils::can_stab: a capability of the attacker against the target
can_stab(entity_id, other_id) == <<entity_id, other_id>> \in stabs

-----------------------------------------------------------------------------
(* Movement and MoveResult, movement.rs 82-139 and 568-587 *)

MoveModes == {"Sneak", "Walk", "Run"}

AttackPush(target_id, delta) == [kind |-> "Push", target |-> target_id, delta |-> delta]
AttackStab(target_id) == [kind |-> "Stab", target |-> target_id]

Movement(pos, typ, attack) == [pos |-> pos, typ |-> typ, attack |-> attack]
move_to(pos, typ) == Movement(pos, typ, None)
attack_move(pos, typ, attack) == Movement(pos, typ, Some(attack))

with_pos(pos) == [entity |-> None, blocked |-> None, move_pos |-> pos]

no_collision(result) == result.blocked = None /\ result.entity = None

-----------------------------------------------------------------------------
(* check_collision, movement.rs 594-634 *)

\* the loop over the points of the movement line (610-630); last_pos is
\* assigned the origin after every point (629)
RECURSIVE collision_loop(_, _, _, _, _)
collision_loop(move_line, i, last_pos, result, pos) ==
    IF i > Len(move_line) THEN result
    ELSE LET line_pos == move_line[i]
             key == has_blocking_entity(line_pos)
         IN IF key # None
            THEN [result EXCEPT !.move_pos = last_pos, !.entity = key]
            ELSE IF result.blocked # None /\ line_pos = result.blocked[1].start_pos
            THEN result
            ELSE collision_loop(move_line, i + 1, pos, result, pos)

\* the walls and entities are consulted for a zero move as well
check_collision_always(pos, dx, dy) ==
    LET result == with_pos(add_pos(pos, <<dx, dy>>))
        hit == is_blocked_by_wall(pos, dx, dy)
        walled == IF hit # None
                  THEN [result EXCEPT !.blocked = hit, !.move_pos = hit[1].start_pos]
                  ELSE result
        move_line == line_inclusive(pos, <<pos[1] + dx, pos[2] + dy>>)
    IN collision_loop(move_line, 1, pos, walled, pos)

check_collision(pos, dx, dy) ==
    LET result == with_pos(add_pos(pos, <<dx, dy>>))
    IN IF ~(dx = 0 /\ dy = 0)
       THEN LET hit == is_blocked_by_wall(pos, dx, dy)
                walled == IF hit # None
                          THEN [result EXCEPT !.blocked = hit,
                                              !.move_pos = hit[1].start_pos]
                          ELSE result
                move_line == line_inclusive(pos, <<pos[1] + dx, pos[2] + dy>>)
            IN collision_loop(move_line, 1, pos, walled, pos)
       ELSE result

-----------------------------------------------------------------------------
(* The four outcomes of a move, movement.rs 636-759 *)

entity_move_not_blocked(entity_id, move_pos, delta) ==
    LET pos == entities.pos[entity_id]
        other == has_blocking_entity(next_pos(pos, delta))
    IN IF other # None
       THEN IF can_stab(entity_id, other[1])
            THEN Some(attack_move(move_pos, "Move", AttackStab(other[1])))
            ELSE Some(move_to(move_pos, "Move"))
       ELSE Some(move_to(move_pos, "Move"))

\* the test both wall outcomes make before jumping (662-666, 733-737)
jumps_wall(entity_id, blocked) ==
    /\ entities.move_mode[entity_id] = "Run"
    /\ ~blocked.blocked_tile
    /\ blocked.wall_type = "ShortWall"

\* the jump carries on to the end of the move instead of landing behind the wall
entity_move_blocked_by_wall_full(entity_id, delta, blocked) ==
    LET pos == entities.pos[entity_id]
        new_pos == add_pos(pos, delta)
        other == has_blocking_entity(next_pos(pos, delta))
    IN IF jumps_wall(entity_id, blocked)
       THEN IF other # None /\ can_stab(entity_id, other[1])
            THEN Some(attack_move(new_pos, "JumpWall", AttackStab(other[1])))
            ELSE Some(move_to(new_pos, "JumpWall"))
       ELSE Some(move_to(blocked.start_pos, "Move"))

\* a wall that is not jumped stops the mover behind it instead of before it
entity_move_blocked_by_wall_through(entity_id, delta, blocked) ==
    LET pos == entities.pos[entity_id]
        new_pos == blocked.end_pos
        other == has_blocking_entity(next_pos(pos, delta))
    IN IF jumps_wall(entity_id, blocked)
       THEN IF other # None /\ can_stab(entity_id, other[1])
            THEN Some(attack_move(new_pos, "JumpWall", AttackStab(other[1])))
            ELSE Some(move_to(new_pos, "JumpWall"))
       ELSE Some(move_to(blocked.end_pos, "Move"))

entity_move_blocked_by_wall(entity_id, delta, blocked) ==
    LET pos == entities.pos[entity_id]
        new_pos == blocked.end_pos
        other == has_blocking_entity(next_pos(pos, delta))
    IN IF jumps_wall(entity_id, blocked)
       THEN IF other # None /\ can_stab(entity_id, other[1])
            THEN Some(attack_move(new_pos, "JumpWall", AttackStab(other[1])))
            ELSE Some(move_to(new_pos, "JumpWall"))
       ELSE Some(move_to(blocked.start_pos, "Move"))

\* the push displaces the blocker by one tile instead of the mover's delta
entity_move_blocked_by_entity_push_one(entity_id, other_id, move_pos, delta) ==
    LET pos == entities.pos[entity_id]
    IN IF can_stab(entity_id, other_id)
       THEN Some(attack_move(move_pos, "Move", AttackStab(other_id)))
       ELSE IF entities.blocks[other_id]
       THEN Some(attack_move(add_pos(pos, delta), "Move",
                             AttackPush(other_id, <<signum(delta[1]), signum(delta[2])>>)))
       ELSE Some(move_to(move_pos, "Move"))

entity_move_blocked_by_entity(entity_id, other_id, move_pos, delta) ==
    LET pos == entities.pos[entity_id]
    IN IF can_stab(entity_id, other_id)
       THEN Some(attack_move(move_pos, "Move", AttackStab(other_id)))
       ELSE IF entities.blocks[other_id]
       THEN Some(attack_move(add_pos(pos, delta), "Move", AttackPush(other_id, delta)))
       ELSE Some(move_to(move_pos, "Move"))

\* the attack both branches of the wall-and-entity outcome build (722-729,
\* 740-747)
attack_next_to(entity_id, other_id, delta) ==
    LET pos == entities.pos[entity_id]
        entity_pos == entities.pos[other_id]
        attack == IF can_stab(entity_id, other_id)
                  THEN AttackStab(other_id)
                  ELSE AttackPush(other_id, delta)
    IN Some(attack_move(move_next_to(pos, entity_pos), "Move", attack))

\* a jumpable wall in front of the entity is jumped like a wall on its own
entity_move_blocked_by_entity_and_wall_jump(entity_id, other_id, blocked, delta) ==
    LET entity_pos == entities.pos[other_id]
        pos == entities.pos[entity_id]
        entity_dist == distance(pos, entity_pos)
        wall_dist == distance(pos, blocked.start_pos)
    IN IF entity_dist < wall_dist
       THEN attack_next_to(entity_id, other_id, delta)
       ELSE IF entity_dist > wall_dist
       THEN IF jumps_wall(entity_id, blocked)
            THEN Some(move_to(blocked.end_pos, "JumpWall"))
            ELSE Some(move_to(blocked.start_pos, "Move"))
       ELSE Some(move_to(blocked.start_pos, "Move"))

\* a tie between the entity and the wall goes to the entity
entity_move_blocked_by_entity_and_wall_tie(entity_id, other_id, blocked, delta) ==
    LET entity_pos == entities.pos[other_id]
        pos == entities.pos[entity_id]
        entity_dist == distance(pos, entity_pos)
        wall_dist == distance(pos, blocked.start_pos)
    IN IF entity_dist <= wall_dist
       THEN attack_next_to(entity_id, other_id, delta)
       ELSE IF jumps_wall(entity_id, blocked)
       THEN attack_next_to(entity_id, other_id, delta)
       ELSE Some(move_to(blocked.start_pos, "Move"))

entity_move_blocked_by_entity_and_wall(entity_id, other_id, blocked, delta) ==
    LET entity_pos == entities.pos[other_id]
        pos == entities.pos[entity_id]
        entity_dist == distance(pos, entity_pos)
        wall_dist == distance(pos, blocked.start_pos)
    IN IF entity_dist < wall_dist
       THEN attack_next_to(entity_id, other_id, delta)
       ELSE IF entity_dist > wall_dist
       THEN IF jumps_wall(entity_id, blocked)
            THEN attack_next_to(entity_id, other_id, delta)
            ELSE Some(move_to(blocked.start_pos, "Move"))
       ELSE Some(move_to(blocked.start_pos, "Move"))

-----------------------------------------------------------------------------
(* calculate_move, movement.rs 761-809 *)

\* the movement chosen by the match on the collision (770-800)
resolve_move(action, reach, entity_id) ==
    LET pos == entities.pos[entity_id]
        delta == move_with_reach(reach, action)
    IN IF delta # None
       THEN LET result == check_collision(pos, delta[1][1], delta[1][2])
            IN CASE result.blocked # None /\ result.entity # None ->
                        entity_move_blocked_by_entity_and_wall(
                            entity_id, result.entity[1], result.blocked[1], delta[1])
                 [] result.blocked = None /\ result.entity # None ->
                        entity_move_blocked_by_entity(
                            entity_id, result.entity[1], result.move_pos, delta[1])
                 [] result.blocked # None /\ result.entity = None ->
                        entity_move_blocked_by_wall(entity_id, delta[1], result.blocked[1])
                 [] result.blocked = None /\ result.entity = None ->
                        entity_move_not_blocked(entity_id, result.move_pos, delta[1])
       ELSE None

\* a movement without an attack that ends where it starts is no movement
\* (802-806)
\* the no-op filter left out
reject_no_op_never(moved, pos) == moved

reject_no_op(moved, pos) ==
    IF moved # None /\ moved[1].attack = None /\ moved[1].pos = pos
    THEN None
    ELSE moved

calculate_move(action, reach, entity_id) ==
    reject_no_op(resolve_move(action, reach, entity_id), entities.pos[entity_id])

-----------------------------------------------------------------------------
(* The worlds the planner is run in: the player stands at PlayerStart;      *)
(* along one of the directions of ObstacleRays lie obstructions (a wall on   *)
(* an edge the line crosses, a blocked tile): at most two along an axis, at  *)
(* most one along the diagonal; and at most one other entity stands on that  *)
(* line.  The rays are one towards the right border of the map, one upwards  *)
(* inside the map and one diagonal towards the bottom border.                *)

Player == "player"
Other == "other"

PlayerStart == <<5, 5>>

ObstacleRays == {"Right", "Up", "DownLeft"}

RECURSIVE ray_tile(_, _)
ray_tile(dir, k) ==
    IF k = 0 THEN PlayerStart ELSE add_pos(ray_tile(dir, k - 1), into_move(dir))

InMap(pos) == pos[1] >= 0 /\ pos[1] < MapWidth /\ pos[2] >= 0 /\ pos[2] < MapHeight

RayTiles(dir) == {ray_tile(dir, k) : k \in 1..MaxDist} \cap {p \in (0..MapWidth) \X (0..MapHeight) : InMap(p)}

RayEdges(dir) ==
    {e \in UNION {edges_crossed(ray_tile(dir, k - 1), ray_tile(dir, k)) : k \in 1..MaxDist} :
        InMap(e.pos)}

RayWalls(dir) ==
    {[side |-> e.side, pos |-> e.pos, typ |-> t] : e \in RayEdges(dir), t \in {"ShortWall", "TallWall"}}

\* at most two walls, on edges of different steps of the line
WallChoices(dir) ==
    {{}} \cup {{w} : w \in RayWalls(dir)}
         \cup {vw \in SUBSET RayWalls(dir) :
                    /\ Cardinality(vw) = 2
                    /\ \A v, w \in vw : v # w => (v.pos # w.pos /\ v.side = w.side)}

TileChoices(dir) == {{}} \cup {{p} : p \in RayTiles(dir)}

\* no other entity, a blocking one on a tile of the line or one that does
\* not block on the first tile
OtherChoices(dir) ==
    {None} \cup {Some([pos |-> p, blocks |-> TRUE]) : p \in RayTiles(dir)}
           \cup {Some([pos |-> ray_tile(dir, 1), blocks |-> FALSE])}

Entities(other, mode) ==
    IF other = None
    THEN [pos       |-> (Player :> PlayerStart),
          blocks    |-> (Player :> TRUE),
          move_mode |-> (Player :> mode)]
    ELSE [pos       |-> (Player :> PlayerStart @@ Other :> other[1].pos),
          blocks    |-> (Player :> TRUE @@ Other :> other[1].blocks),
          move_mode |-> (Player :> mode @@ Other :> "Walk")]

Init ==
    /\ \E dir \in ObstacleRays :
         /\ \E walls \in WallChoices(dir), tiles \in TileChoices(dir) :
              /\ Cardinality(walls) + Cardinality(tiles) <= (IF horiz(dir) THEN 2 ELSE 1)
              /\ map = [width |-> MapWidth, height |-> MapHeight,
                        walls |-> walls, blocked |-> tiles]
         /\ \E other \in OtherChoices(dir), mode \in MoveModes :
              /\ entities = Entities(other, mode)
              /\ stabs \in IF other = None THEN {{}} ELSE {{}, {<<Player, Other>>}}
    /\ call = [op |-> "none"]
    /\ delta_pos = None
    /\ move_result = None
    /\ resolved = None
    /\ movement = None
    /\ objects = <<>>
    /\ sounds = {}
    /\ msg_log = <<>>
    /\ turn = None
    /\ ai_round = NoRound
    /\ momentum = None
    /\ momentum_calls = <<>>
    /\ reach_offsets = None
    /\ game = None

-----------------------------------------------------------------------------
(* Operations *)

Reaches == {Reach(kind, dist) : kind \in ReachKinds, dist \in 1..MaxDist}

\* calculate_move(action, reach, entity_id, data), with the values it
\* computes on the way
CalculateMove(action, reach, entity_id) ==
    LET delta == move_with_reach(reach, action)
    IN /\ call.op = "none"
       /\ call' = [op |-> "calculate_move", action |-> action, reach |-> reach,
                   entity_id |-> entity_id]
       /\ delta_pos' = delta
       /\ move_result' = IF delta # None
                         THEN Some(check_collision(entities.pos[entity_id],
                                                   delta[1][1], delta[1][2]))
                         ELSE None
       /\ resolved' = resolve_move(action, reach, entity_id)
       /\ movement' = calculate_move(action, reach, entity_id)
       /\ UNCHANGED <<map, entities, stabs>>
       /\ UNCHANGED ai_vars
       /\ UNCHANGED value_vars

\* check_collision(pos, dx, dy, data) on its own
CheckCollision(pos, dx, dy) ==
    /\ call.op = "none"
    /\ call' = [op |-> "check_collision", pos |-> pos, dx |-> dx, dy |-> dy]
    /\ move_result' = Some(check_collision(pos, dx, dy))
    /\ delta_pos' = None
    /\ resolved' = None
    /\ movement' = None
    /\ UNCHANGED <<map, entities, stabs>>
    /\ UNCHANGED ai_vars
    /\ UNCHANGED value_vars

\* the caller takes the result; the next call starts from a clean slate
Return ==
    /\ call.op # "none"
    /\ call' = [op |-> "none"]
    /\ delta_pos' = None
    /\ move_result' = None
    /\ resolved' = None
    /\ movement' = None
    /\ UNCHANGED <<map, entities, stabs>>
    /\ UNCHANGED ai_vars
    /\ UNCHANGED value_vars

ProbeDeltas == {<<0, 0>>} \cup {into_move(dir) : dir \in Directions}

Next ==
    \/ \E action \in Directions, reach \in Reaches :
          CalculateMove(action, reach, Player)
    \/ \E d \in ProbeDeltas :
          CheckCollision(entities.pos[Player], d[1], d[2])
    \/ Return

Spec == Init /\ [][Next]_vars

-----------------------------------------------------------------------------
(* The monsters' behaviour, roguelike_core/src/ai.rs.  ai.rs works on       *)
(* data.objects; an object has the fields pos, alive, blocks, hp,           *)
(* behavior (Option<Behavior>), attack and movement (Option<Reach>) and ai  *)
(* (Option<Ai>).                                                            *)

\* the radius within which a monster sees
MONSTER_VIEW_DIST == 6

\* the distance within which a sound is heard
SOUND_RADIUS == 3

Monster == "monster"

ObjectIds == DOMAIN objects

\* Behavior
Idle == [kind |-> "Idle"]
Investigating(target_pos) == [kind |-> "Investigating", pos |-> target_pos]
Attacking(object_handle) == [kind |-> "Attacking", target |-> object_handle]

\* Movement as ai.rs uses it: Movement::Move(offset), Movement::Attack(pos, target)
MovementMove(pos_offset) == [kind |-> "Move", offset |-> pos_offset]
MovementAttack(hit_pos, target_handle) ==
    [kind |-> "Attack", pos |-> hit_pos, target |-> target_handle]

\* Action (movement.rs 15-28); Panic stands for the panic! that ends the turn
\* instead of an Action
ActionMove(mov) == [kind |-> "Move", movement |-> mov]
StateChange(behavior) == [kind |-> "StateChange", behavior |-> behavior]
NoAction == [kind |-> "NoAction"]
Panic == [kind |-> "Panic"]

\* Direction::move_actions (movement.rs 267-276): the directions in the order
\* in which the candidates are enumerated
move_actions ==
    <<"Left", "Right", "Up", "Down", "DownLeft", "DownRight", "UpLeft", "UpRight">>

\* the concatenation of the sequences of a sequence
RECURSIVE Flatten(_)
Flatten(seqs) == IF seqs = <<>> THEN <<>> ELSE Head(seqs) \o Flatten(Tail(seqs))

\* as end_points, Horiz and Diag with the points at the full distance alone
end_points_outermost(reach) ==
    LET dist == reach.dist
    IN CASE reach.kind = "Single" ->
                <<<<0, dist>>, <<0 - dist, dist>>, <<0 - dist, 0>>,
                  <<0 - dist, 0 - dist>>, <<0, 0 - dist>>, <<dist, 0 - dist>>,
                  <<dist, 0>>, <<dist, dist>>>>
         [] reach.kind = "Horiz" ->
                <<<<dist, 0>>, <<0, dist>>, <<(0 - 1) * dist, 0>>, <<0, (0 - 1) * dist>>>>
         [] reach.kind = "Diag" ->
                <<<<dist, dist>>, <<(0 - 1) * dist, dist>>, <<dist, (0 - 1) * dist>>,
                  <<(0 - 1) * dist, (0 - 1) * dist>>>>

\* as end_points, Diag without the points towards (-1, -1)
end_points_diag_three(reach) ==
    LET dist == reach.dist
    IN CASE reach.kind = "Single" ->
                <<<<0, dist>>, <<0 - dist, dist>>, <<0 - dist, 0>>,
                  <<0 - dist, 0 - dist>>, <<0, 0 - dist>>, <<dist, 0 - dist>>,
                  <<dist, 0>>, <<dist, dist>>>>
         [] reach.kind = "Horiz" ->
                Flatten([d \in 1..dist |->
                    <<<<d, 0>>, <<0, d>>, <<(0 - 1) * d, 0>>, <<0, (0 - 1) * d>>>>])
         [] reach.kind = "Diag" ->
                Flatten([d \in 1..dist |->
                    <<<<d, d>>, <<(0 - 1) * d, d>>, <<d, (0 - 1) * d>>>>])

\* Reach::offsets (movement.rs 408-455): the end points of the shape, then
\* every point of the line from the origin to each end point
end_points(reach) ==
    LET dist == reach.dist
    IN CASE reach.kind = "Single" ->
                <<<<0, dist>>, <<0 - dist, dist>>, <<0 - dist, 0>>,
                  <<0 - dist, 0 - dist>>, <<0, 0 - dist>>, <<dist, 0 - dist>>,
                  <<dist, 0>>, <<dist, dist>>>>
         [] reach.kind = "Horiz" ->
                Flatten([d \in 1..dist |->
                    <<<<d, 0>>, <<0, d>>, <<(0 - 1) * d, 0>>, <<0, (0 - 1) * d>>>>])
         [] reach.kind = "Diag" ->
                Flatten([d \in 1..dist |->
                    <<<<d, d>>, <<(0 - 1) * d, d>>, <<d, (0 - 1) * d>>,
                      <<(0 - 1) * d, (0 - 1) * d>>>>])

\* as offsets, the end points alone
offsets_end_points_only(reach) == end_points(reach)

offsets(reach) ==
    LET ends == end_points(reach)
    IN Flatten([i \in 1..Len(ends) |-> line_inclusive(<<0, 0>>, ends[i])])

\* GameData::find_player
find_player == IF Player \in ObjectIds THEN Some(Player) ELSE None

\* Map::is_in_fov: the target lies within the radius and no blocked tile
\* stands on the line between the two positions
is_in_fov(start_pos, end_pos, radius) ==
    /\ distance(start_pos, end_pos) <= radius
    /\ LET l == line_inclusive(start_pos, end_pos)
       IN \A i \in 1..(Len(l) - 1) : ~is_blocked_tile(l[i])

\* GameData::sound_within_earshot: the position of a sound heard from pos
sound_within_earshot(pos) ==
    LET heard == {s \in sounds : distance(pos, s) <= SOUND_RADIUS}
    IN IF heard = {} THEN None ELSE Some(CHOOSE s \in heard : TRUE)

\* GameData::is_blocked_tile: the tile is outside the map, blocked itself or
\* occupied by an object that blocks
data_is_blocked_tile(pos) ==
    \/ ~is_within_bounds(pos)
    \/ is_blocked_tile(pos)
    \/ \E id \in ObjectIds : objects[id].blocks /\ objects[id].pos = pos

\* the neighbours of a tile from which a step onto the tile is free of walls
step_free(from, to) ==
    is_blocked_by_wall(from, to[1] - from[1], to[2] - from[2]) = None

neighbours(pos) ==
    {p \in {add_pos(pos, into_move(d)) : d \in Directions} : is_within_bounds(p)}

\* the tiles by their number of steps to the goal, until start is met:
\* layers[k + 1] holds the tiles k steps from the goal
RECURSIVE path_layers(_, _, _)
path_layers(layers, seen, start) ==
    LET frontier == layers[Len(layers)]
        next == {p \in UNION {neighbours(q) : q \in frontier} :
                    p \notin seen /\ \E q \in frontier : q \in neighbours(p) /\ step_free(p, q)}
    IN IF start \in frontier \/ next = {} THEN layers
       ELSE path_layers(Append(layers, next), seen \cup next, start)

\* from a tile k steps from the goal to the goal, taking at each tile the
\* first direction of move_actions that leads one step closer
RECURSIVE path_walk(_, _, _)
path_walk(pos, k, layers) ==
    IF k = 0 THEN <<pos>>
    ELSE LET closer(d) == /\ add_pos(pos, into_move(d)) \in layers[k]
                          /\ step_free(pos, add_pos(pos, into_move(d)))
             first == CHOOSE i \in 1..Len(move_actions) :
                         /\ closer(move_actions[i])
                         /\ \A j \in 1..(i - 1) : ~closer(move_actions[j])
         IN <<pos>> \o path_walk(add_pos(pos, into_move(move_actions[first])), k - 1, layers)

\* Map::astar: a shortest walkable path from start to goal, both included,
\* or the empty path when there is none
astar(start, goal) ==
    LET layers == path_layers(<<{goal}>>, {goal}, start)
    IN IF start \notin layers[Len(layers)] THEN <<>>
       ELSE path_walk(start, Len(layers) - 1, layers)

\* step_towards (ai.rs 30-39): each component of the offset divided by its
\* length and rounded; a component c of an offset of squared length n rounds
\* to its sign exactly when 4 * c * c >= n, and 0 / 0 (NaN) casts to 0
step_towards(start_pos, target_pos) ==
    LET dx == target_pos[1] - start_pos[1]
        dy == target_pos[2] - start_pos[2]
        n  == dx * dx + dy * dy
        unit(c) == IF n > 0 /\ 4 * c * c >= n THEN signum(c) ELSE 0
    IN <<unit(dx), unit(dy)>>

\* as ai_can_hit_target, without the look at the field of view
ai_can_hit_target_blind(monster_pos, target_pos, reach) ==
    LET offs == offsets(reach)
        positions == [i \in 1..Len(offs) |-> add_pos(offs[i], monster_pos)]
    IN IF \E i \in 1..Len(positions) : positions[i] = target_pos
       THEN Some(target_pos)
       ELSE None

\* ai_can_hit_target (ai.rs 139-168)
ai_can_hit_target(monster_pos, target_pos, reach) ==
    LET within_fov == is_in_fov(monster_pos, target_pos, MONSTER_VIEW_DIST)
        offs == offsets(reach)
        positions == [i \in 1..Len(offs) |-> add_pos(offs[i], monster_pos)]
    IN IF within_fov /\ \E i \in 1..Len(positions) : positions[i] = target_pos
       THEN Some(target_pos)
       ELSE None

\* as ai_take_astar_step, with the first point of the path, where the
\* monster stands, taken for the next one
ai_take_astar_step_first_point(monster_pos, target_pos) ==
    LET astar_iter == astar(monster_pos, target_pos)
    IN IF Len(astar_iter) > 1 /\ ~data_is_blocked_tile(astar_iter[1])
       THEN step_towards(monster_pos, astar_iter[1])
       ELSE <<0, 0>>

\* as ai_take_astar_step, without the look at the tile stepped onto
ai_take_astar_step_unchecked(monster_pos, target_pos) ==
    LET astar_iter == astar(monster_pos, target_pos)
    IN IF Len(astar_iter) > 1
       THEN step_towards(monster_pos, astar_iter[2])
       ELSE <<0, 0>>

\* ai_take_astar_step (ai.rs 170-180); astar_iter[1] of the code is the
\* second point of the path
ai_take_astar_step(monster_pos, target_pos) ==
    LET astar_iter == astar(monster_pos, target_pos)
    IN IF Len(astar_iter) > 1 /\ ~data_is_blocked_tile(astar_iter[2])
       THEN step_towards(monster_pos, astar_iter[2])
       ELSE <<0, 0>>

\* ai_attack 68-75: the positions the monster's movement reaches, in the
\* order of move_actions, inside the map and passing the filter on
\* data.is_blocked_tile
move_positions(monster_pos, movement_reach) ==
    LET moves == Flatten([i \in 1..Len(move_actions) |->
                             move_with_reach(movement_reach, move_actions[i])])
        reached == [i \in 1..Len(moves) |-> add_pos(moves[i], monster_pos)]
        inside == SelectSeq(reached, LAMBDA pos : is_within_bounds(pos))
    IN SelectSeq(inside, LAMBDA pos : data_is_blocked_tile(pos))

\* ai_attack 78-83: those of them from which the attack reaches the target
hit_positions(monster_pos, target_pos, attack_reach, movement_reach) ==
    SelectSeq(move_positions(monster_pos, movement_reach),
              LAMBDA new_pos : ai_can_hit_target(new_pos, target_pos, attack_reach) # None)

\* as min_by_key, but the last of the minima
closest_position_last(positions, target_pos) ==
    LET key(i) == distance(target_pos, positions[i])
        last == CHOOSE i \in 1..Len(positions) :
                    /\ \A j \in 1..Len(positions) : key(i) <= key(j)
                    /\ \A j \in (i + 1)..Len(positions) : key(j) > key(i)
    IN positions[last]

\* ai_attack 87-92: min_by_key on the distance to the target, the first of
\* the minima
closest_position(positions, target_pos) ==
    LET key(i) == distance(target_pos, positions[i])
        first == CHOOSE i \in 1..Len(positions) :
                    /\ \A j \in 1..Len(positions) : key(i) <= key(j)
                    /\ \A j \in 1..(i - 1) : key(j) > key(i)
    IN positions[first]

\* ai_attack 64-97: the tile the monster paths towards
approach_target(monster_handle, target_pos) ==
    LET monster_pos == objects[monster_handle].pos
        positions == hit_positions(monster_pos, target_pos,
                                   objects[monster_handle].attack[1],
                                   objects[monster_handle].movement[1])
    IN IF Len(positions) > 0 THEN closest_position(positions, target_pos) ELSE target_pos

\* as ai_attack for a live target, a wall on the line to the target not
\* being looked for
ai_attack_live_through_walls(monster_handle, target_handle) ==
    LET target_pos == objects[target_handle].pos
        monster_pos == objects[monster_handle].pos
    IN IF objects[monster_handle].attack = None
       THEN Panic
       ELSE IF ai_can_hit_target(monster_pos, target_pos, objects[monster_handle].attack[1]) # None
       THEN ActionMove(MovementAttack(
                ai_can_hit_target(monster_pos, target_pos, objects[monster_handle].attack[1])[1],
                target_handle))
       ELSE IF objects[monster_handle].movement # None
       THEN ActionMove(MovementMove(
                ai_take_astar_step(monster_pos, approach_target(monster_handle, target_pos))))
       ELSE ActionMove(MovementMove(<<0, 0>>))

\* ai_attack 52-98: the turn against a live target
ai_attack_live(monster_handle, target_handle) ==
    LET target_pos == objects[target_handle].pos
        monster_pos == objects[monster_handle].pos
    IN IF objects[monster_handle].attack = None
       THEN Panic
       ELSE IF ai_can_hit_target(monster_pos, target_pos, objects[monster_handle].attack[1]) # None
       THEN ActionMove(MovementAttack(
                ai_can_hit_target(monster_pos, target_pos, objects[monster_handle].attack[1])[1],
                target_handle))
       ELSE IF is_blocked_by_wall(monster_pos, target_pos[1] - monster_pos[1],
                                  target_pos[2] - monster_pos[2]) # None
       THEN StateChange(Investigating(target_pos))
       ELSE IF objects[monster_handle].movement # None
       THEN ActionMove(MovementMove(
                ai_take_astar_step(monster_pos, approach_target(monster_handle, target_pos))))
       ELSE ActionMove(MovementMove(<<0, 0>>))

\* as ai_attack, a dead target being treated like a live one
ai_attack_dead_too(monster_handle, target_handle) ==
    ai_attack_live(monster_handle, target_handle)

\* ai_attack (ai.rs 41-101)
ai_attack(monster_handle, target_handle) ==
    IF ~objects[target_handle].alive
    THEN StateChange(Investigating(objects[target_handle].pos))
    ELSE ai_attack_live(monster_handle, target_handle)

\* as ai_investigate, the arrival at the target being tested before the
\* player is looked for
ai_investigate_arrival_first(target_pos_orig, monster_handle) ==
    LET player_handle == find_player
        player_pos == objects[player_handle[1]].pos
        monster_pos == objects[monster_handle].pos
        heard == sound_within_earshot(monster_pos)
        target_pos == IF heard # None THEN heard[1] ELSE target_pos_orig
    IN IF player_handle = None
       THEN Panic
       ELSE IF target_pos = monster_pos
       THEN StateChange(Idle)
       ELSE IF is_in_fov(monster_pos, player_pos, MONSTER_VIEW_DIST)
       THEN StateChange(Attacking(player_handle[1]))
       ELSE ActionMove(MovementMove(ai_take_astar_step(monster_pos, target_pos)))

\* ai_investigate (ai.rs 103-137): the Action it returns
ai_investigate(target_pos_orig, monster_handle) ==
    LET player_handle == find_player
        player_pos == objects[player_handle[1]].pos
        monster_pos == objects[monster_handle].pos
        heard == sound_within_earshot(monster_pos)
        target_pos == IF heard # None THEN heard[1] ELSE target_pos_orig
    IN IF player_handle = None
       THEN Panic
       ELSE IF is_in_fov(monster_pos, player_pos, MONSTER_VIEW_DIST)
       THEN StateChange(Attacking(player_handle[1]))
       ELSE IF target_pos = monster_pos
       THEN StateChange(Idle)
       ELSE ActionMove(MovementMove(ai_take_astar_step(monster_pos, target_pos)))

\* ai_investigate 118-123: the objects it leaves behind; a sound heard while
\* the player is out of sight is written to the monster's behavior at once
ai_investigate_objects(target_pos_orig, monster_handle) ==
    LET player_handle == find_player
        monster_pos == objects[monster_handle].pos
        heard == sound_within_earshot(monster_pos)
    IN IF /\ player_handle # None
          /\ ~is_in_fov(monster_pos, objects[player_handle[1]].pos, MONSTER_VIEW_DIST)
          /\ heard # None
       THEN [objects EXCEPT ![monster_handle].behavior = Some(Investigating(heard[1]))]
       ELSE objects

\* an Idle monster that listens before it looks
ai_idle_sound_first(monster_handle) ==
    LET monster_pos == objects[monster_handle].pos
        player_pos == objects[find_player[1]].pos
        heard == sound_within_earshot(monster_pos)
    IN IF heard # None
       THEN StateChange(Investigating(heard[1]))
       ELSE IF is_in_fov(monster_pos, player_pos, MONSTER_VIEW_DIST)
       THEN StateChange(Attacking(find_player[1]))
       ELSE NoAction

\* basic_ai_take_turn 192-204: the turn of an Idle monster
ai_idle(monster_handle) ==
    LET monster_pos == objects[monster_handle].pos
        player_pos == objects[find_player[1]].pos
        heard == sound_within_earshot(monster_pos)
    IN IF is_in_fov(monster_pos, player_pos, MONSTER_VIEW_DIST)
       THEN StateChange(Attacking(find_player[1]))
       ELSE IF heard # None
       THEN StateChange(Investigating(heard[1]))
       ELSE NoAction

\* as basic_ai_take_turn, a monster without a behaviour taking no action
basic_ai_take_turn_no_behavior_idles(monster_handle) ==
    LET behavior == objects[monster_handle].behavior
    IN IF find_player = None
       THEN Panic
       ELSE IF ~is_within_bounds(objects[monster_handle].pos)
       THEN NoAction
       ELSE IF behavior = None
       THEN NoAction
       ELSE CASE behavior[1].kind = "Idle" -> ai_idle(monster_handle)
              [] behavior[1].kind = "Investigating" ->
                    ai_investigate(behavior[1].pos, monster_handle)
              [] behavior[1].kind = "Attacking" ->
                    ai_attack(monster_handle, behavior[1].target)

\* as basic_ai_take_turn, the turn skipped when there is no player
basic_ai_take_turn_no_player_skips(monster_handle) ==
    LET behavior == objects[monster_handle].behavior
    IN IF find_player = None
       THEN NoAction
       ELSE IF ~is_within_bounds(objects[monster_handle].pos)
       THEN NoAction
       ELSE IF behavior = None
       THEN Panic
       ELSE CASE behavior[1].kind = "Idle" -> ai_idle(monster_handle)
              [] behavior[1].kind = "Investigating" ->
                    ai_investigate(behavior[1].pos, monster_handle)
              [] behavior[1].kind = "Attacking" ->
                    ai_attack(monster_handle, behavior[1].target)

\* as basic_ai_take_turn, without the test of the monster's position
basic_ai_take_turn_anywhere(monster_handle) ==
    LET behavior == objects[monster_handle].behavior
    IN IF find_player = None
       THEN Panic
       ELSE IF behavior = None
       THEN Panic
       ELSE CASE behavior[1].kind = "Idle" -> ai_idle(monster_handle)
              [] behavior[1].kind = "Investigating" ->
                    ai_investigate(behavior[1].pos, monster_handle)
              [] behavior[1].kind = "Attacking" ->
                    ai_attack(monster_handle, behavior[1].target)

\* basic_ai_take_turn (ai.rs 184-222): the Action it returns
basic_ai_take_turn(monster_handle) ==
    LET behavior == objects[monster_handle].behavior
    IN IF find_player = None
       THEN Panic
       ELSE IF ~is_within_bounds(objects[monster_handle].pos)
       THEN NoAction
       ELSE IF behavior = None
       THEN Panic
       ELSE CASE behavior[1].kind = "Idle" -> ai_idle(monster_handle)
              [] behavior[1].kind = "Investigating" ->
                    ai_investigate(behavior[1].pos, monster_handle)
              [] behavior[1].kind = "Attacking" ->
                    ai_attack(monster_handle, behavior[1].target)

\* basic_ai_take_turn: the objects it leaves behind
basic_ai_take_turn_objects(monster_handle) ==
    LET behavior == objects[monster_handle].behavior
    IN IF /\ find_player # None
          /\ is_within_bounds(objects[monster_handle].pos)
          /\ behavior # None
          /\ behavior[1].kind = "Investigating"
       THEN ai_investigate_objects(behavior[1].pos, monster_handle)
       ELSE objects

\* attack: the target loses one hit point and dies when none is left
attack_objects(monster_handle, target_handle) ==
    LET hp == objects[target_handle].hp - 1
    IN [objects EXCEPT ![target_handle].hp = hp,
                       ![target_handle].alive = IF hp <= 0 THEN FALSE ELSE @]

attack_msgs(monster_handle, target_handle) ==
    <<[msg |-> "Attack", object |-> monster_handle, target |-> target_handle]>>

\* as ai_apply_actions, a change to Attacking striking the target at once
ai_apply_actions_objects_eager(monster_handle, action) ==
    CASE action.kind = "Move" /\ action.movement.kind = "Move" ->
            [objects EXCEPT ![monster_handle].pos = add_pos(@, action.movement.offset)]
      [] action.kind = "Move" /\ action.movement.kind = "Attack" ->
            attack_objects(monster_handle, action.movement.target)
      [] action.kind = "StateChange" /\ action.behavior.kind = "Attacking" ->
            [attack_objects(monster_handle, action.behavior.target)
                EXCEPT ![monster_handle].behavior = Some(action.behavior)]
      [] action.kind = "StateChange" /\ action.behavior.kind # "Attacking" ->
            [objects EXCEPT ![monster_handle].behavior = Some(action.behavior)]
      [] OTHER -> objects

\* ai_apply_actions (ai.rs 224-256): the objects after the action
ai_apply_actions_objects(monster_handle, action) ==
    CASE action.kind = "Move" /\ action.movement.kind = "Move" ->
            [objects EXCEPT ![monster_handle].pos = add_pos(@, action.movement.offset)]
      [] action.kind = "Move" /\ action.movement.kind = "Attack" ->
            attack_objects(monster_handle, action.movement.target)
      [] action.kind = "StateChange" ->
            [objects EXCEPT ![monster_handle].behavior = Some(action.behavior)]
      [] OTHER -> objects

\* as ai_apply_actions, the change of state logged before and after it is made
ai_apply_actions_msgs_twice(monster_handle, action) ==
    CASE action.kind = "Move" /\ action.movement.kind = "Move" ->
            <<[msg |-> "Moved", object |-> monster_handle,
               movement |-> action.movement, pos |-> objects[monster_handle].pos]>>
      [] action.kind = "Move" /\ action.movement.kind = "Attack" ->
            attack_msgs(monster_handle, action.movement.target)
      [] action.kind = "StateChange" ->
            <<[msg |-> "StateChange", object |-> monster_handle,
               behavior |-> action.behavior],
              [msg |-> "StateChange", object |-> monster_handle,
               behavior |-> action.behavior]>>
      [] OTHER -> <<>>

\* ai_apply_actions: the messages it logs
ai_apply_actions_msgs(monster_handle, action) ==
    CASE action.kind = "Move" /\ action.movement.kind = "Move" ->
            <<[msg |-> "Moved", object |-> monster_handle,
               movement |-> action.movement, pos |-> objects[monster_handle].pos]>>
      [] action.kind = "Move" /\ action.movement.kind = "Attack" ->
            attack_msgs(monster_handle, action.movement.target)
      [] action.kind = "StateChange" ->
            <<[msg |-> "StateChange", object |-> monster_handle,
               behavior |-> action.behavior]>>
      [] OTHER -> <<>>

-----------------------------------------------------------------------------
(* The worlds the monster takes its turns in: a corridor MapWidth wide and   *)
(* CorridorHeight high with the monster at its left end, the player near    *)
(* the monster or far along the corridor, up to two obstructions (blocked    *)
(* tiles, a wall) around the monster and at most one sound.  The obstructions *)
(* are varied most where they decide most: for the Attacking monster.        *)

\* height of the corridor
CorridorHeight == 3

\* number of messages after which no further turn is taken
MaxLog == 3

MonsterStart == <<0, 1>>

Corridor == (0..(MapWidth - 1)) \X (0..(CorridorHeight - 1))

PlayerSpots ==
    ({p \in Corridor : p[1] <= 2 /\ p[2] <= 2}
        \cup {<<4, 1>>, <<6, 1>>, <<7, 1>>, <<7, 0>>}) \ {MonsterStart}

BlockSpots == {<<1, 0>>, <<1, 1>>, <<1, 2>>, <<0, 0>>, <<2, 1>>, <<3, 1>>}

WallSpots ==
    {[side |-> "left", pos |-> <<1, 1>>, typ |-> "ShortWall"],
     [side |-> "left", pos |-> <<1, 1>>, typ |-> "TallWall"],
     [side |-> "bottom", pos |-> <<0, 0>>, typ |-> "TallWall"],
     [side |-> "left", pos |-> <<3, 1>>, typ |-> "ShortWall"]}

CorridorMap(walls, blocked) ==
    [width |-> MapWidth, height |-> CorridorHeight, walls |-> walls, blocked |-> blocked]

\* the maps with at most one blocked tile and no wall
OpenMaps ==
    {CorridorMap({}, b) : b \in {t \in SUBSET BlockSpots : Cardinality(t) <= 1}}

\* the maps with at most one obstruction
SparseMaps == OpenMaps \cup {CorridorMap({w}, {}) : w \in WallSpots}

\* the maps with at most two obstructions, at most one of them a wall
CorridorMaps ==
    {CorridorMap(w, b) : w \in {{}} \cup {{x} : x \in WallSpots},
                         b \in {t \in SUBSET BlockSpots : Cardinality(t) <= 1}}
    \cup {CorridorMap({}, b) : b \in {t \in SUBSET BlockSpots : Cardinality(t) = 2}}

SoundChoices == {{}, {MonsterStart}, {<<2, 0>>}, {<<7, 2>>}}

InvestigateSpots == {MonsterStart, <<2, 1>>, <<2, 2>>, <<5, 1>>}

AttackReaches == {Reach("Single", 1), Reach("Diag", 1), Reach("Horiz", 2)}

MovementReaches == {Reach("Single", 1), Reach("Horiz", 1), Reach("Single", 2)}

Object(pos, alive, behavior, attack_reach, movement_reach, ai) ==
    [pos |-> pos, alive |-> alive, blocks |-> TRUE, hp |-> IF alive THEN 2 ELSE 0,
     behavior |-> behavior,
     attack |-> attack_reach, movement |-> movement_reach, ai |-> ai]

Objects(player_pos, alive, behavior, attack_reach, movement_reach) ==
    (Player :> Object(player_pos, alive, None, Some(Reach("Single", 1)),
                      Some(Reach("Single", 1)), None))
    @@ (Monster :> Object(MonsterStart, TRUE, Some(behavior), Some(attack_reach),
                          Some(movement_reach), Some("Basic")))

\* an Idle monster, with or without a sound
IdleWorlds ==
    /\ map \in OpenMaps
    /\ \E player_pos \in PlayerSpots \ map.blocked :
          objects = Objects(player_pos, TRUE, Idle, Reach("Single", 1), Reach("Single", 1))
    /\ sounds \in SoundChoices

\* an Investigating monster, with or without a sound
InvestigatingWorlds ==
    /\ map \in SparseMaps
    /\ \E player_pos \in PlayerSpots \ map.blocked, target_pos \in InvestigateSpots :
          objects = Objects(player_pos, TRUE, Investigating(target_pos),
                            Reach("Single", 1), Reach("Single", 1))
    /\ sounds \in SoundChoices

\* a monster Attacking the player, alive or dead
AttackingWorlds ==
    /\ map \in CorridorMaps
    /\ \E player_pos \in PlayerSpots \ map.blocked :
          \/ \E attack_reach \in AttackReaches, movement_reach \in MovementReaches :
                objects = Objects(player_pos, TRUE, Attacking(Player),
                                  attack_reach, movement_reach)
          \/ objects = Objects(player_pos, FALSE, Attacking(Player),
                               Reach("Single", 1), Reach("Single", 1))
    /\ sounds = {}

AiInit ==
    /\ IdleWorlds \/ InvestigatingWorlds \/ AttackingWorlds
    /\ msg_log = <<>>
    /\ turn = None
    /\ call = [op |-> "none"]
    /\ entities = [pos |-> <<>>, blocks |-> <<>>, move_mode |-> <<>>]
    /\ stabs = {}
    /\ delta_pos = None
    /\ move_result = None
    /\ resolved = None
    /\ movement = None
    /\ ai_round = NoRound
    /\ momentum = None
    /\ momentum_calls = <<>>
    /\ reach_offsets = None
    /\ game = None

\* ai_take_turn 12-22: the Action of the monster is decided
AiTakeTurn(monster_handle) ==
    /\ call.op = "none"
    /\ Len(msg_log) < MaxLog
    /\ call' = [op |-> "ai_take_turn", monster_handle |-> monster_handle]
    /\ turn' = Some(IF objects[monster_handle].ai = Some("Basic")
                    THEN basic_ai_take_turn(monster_handle)
                    ELSE NoAction)
    /\ objects' = IF objects[monster_handle].ai = Some("Basic")
                  THEN basic_ai_take_turn_objects(monster_handle)
                  ELSE objects
    /\ UNCHANGED <<map, sounds, msg_log>>
    /\ UNCHANGED <<entities, stabs, delta_pos, move_result, resolved, movement>>
    /\ UNCHANGED <<ai_round, value_vars>>

\* ai_take_turn 24-27: the Action is applied; after a panic nothing is
AiApplyActions ==
    /\ call.op = "ai_take_turn"
    /\ turn[1] # Panic
    /\ call' = [op |-> "ai_apply_actions", monster_handle |-> call.monster_handle]
    /\ objects' = ai_apply_actions_objects(call.monster_handle, turn[1])
    /\ msg_log' = msg_log \o ai_apply_actions_msgs(call.monster_handle, turn[1])
    /\ UNCHANGED <<map, sounds, turn>>
    /\ UNCHANGED <<entities, stabs, delta_pos, move_result, resolved, movement>>
    /\ UNCHANGED <<ai_round, value_vars>>

\* ai_take_turn returns
AiTurnDone ==
    /\ call.op = "ai_apply_actions"
    /\ call' = [op |-> "none"]
    /\ turn' = None
    /\ UNCHANGED <<map, sounds, msg_log, objects>>
    /\ UNCHANGED <<entities, stabs, delta_pos, move_result, resolved, movement>>
    /\ UNCHANGED <<ai_round, value_vars>>

AiNext ==
    \/ AiTakeTurn(Monster)
    \/ AiApplyActions
    \/ AiTurnDone

AiSpec == AiInit /\ [][AiNext]_vars

-----------------------------------------------------------------------------
(* A round of turns: the objects with an Ai take their turns one after the   *)
(* other, ai_take_turn being called for each in the order of ai_round.ids.  *)
(* Two monsters and the player stand in an open corridor.                   *)

\* number of rounds the two monsters take
Rounds == 2

Monster2 == "monster2"

RoundPlayerSpots == {<<1, 1>>, <<2, 0>>, <<4, 1>>, <<7, 1>>}

Monster2Spots == {<<1, 2>>, <<3, 1>>}

RoundBehaviors == {Idle, Investigating(<<2, 1>>), Attacking(Player)}

\* the player has no Ai and takes no action when its turn comes
RoundOrders ==
    {<<Monster, Monster2>>, <<Monster2, Monster>>, <<Monster, Player, Monster2>>}

RoundObjects(player_pos, monster2_pos, behavior, behavior2) ==
    Objects(player_pos, TRUE, behavior, Reach("Single", 1), Reach("Single", 1))
    @@ (Monster2 :> Object(monster2_pos, TRUE, Some(behavior2),
                           Some(Reach("Single", 1)), Some(Reach("Single", 1)),
                           Some("Basic")))

RoundInit ==
    /\ map \in OpenMaps
    /\ \E player_pos \in RoundPlayerSpots \ map.blocked,
          monster2_pos \in Monster2Spots \ map.blocked,
          behavior \in RoundBehaviors, behavior2 \in RoundBehaviors :
          objects = RoundObjects(player_pos, monster2_pos, behavior, behavior2)
    /\ sounds \in {{}, {<<2, 0>>}}
    /\ \E order \in RoundOrders :
          ai_round = [ids |-> Flatten([r \in 1..Rounds |-> order]), done |-> 0]
    /\ msg_log = <<>>
    /\ turn = None
    /\ call = [op |-> "none"]
    /\ entities = [pos |-> <<>>, blocks |-> <<>>, move_mode |-> <<>>]
    /\ stabs = {}
    /\ delta_pos = None
    /\ move_result = None
    /\ resolved = None
    /\ movement = None
    /\ momentum = None
    /\ momentum_calls = <<>>
    /\ reach_offsets = None
    /\ game = None

\* the loop over the objects calls ai_take_turn for the next one
RoundTakeTurn ==
    /\ ai_round.done < Len(ai_round.ids)
    /\ AiTakeTurn(ai_round.ids[ai_round.done + 1])

\* ai_take_turn returns and the loop goes on to the next object
RoundTurnDone ==
    /\ call.op = "ai_apply_actions"
    /\ call' = [op |-> "none"]
    /\ turn' = None
    /\ ai_round' = [ai_round EXCEPT !.done = @ + 1]
    /\ UNCHANGED <<map, sounds, msg_log, objects>>
    /\ UNCHANGED <<entities, stabs, delta_pos, move_result, resolved, movement>>
    /\ UNCHANGED value_vars

RoundNext ==
    \/ RoundTakeTurn
    \/ AiApplyActions
    \/ RoundTurnDone

RoundSpec == RoundInit /\ [][RoundNext]_vars

-----------------------------------------------------------------------------
(* Worlds in which a turn cannot be resolved as usual: the player may be     *)
(* missing, the monster may stand outside the grid (at the (-1, -1) given to *)
(* an item that was picked up, or just past a border), its behaviour may be  *)
(* unset and it may have no Ai.                                              *)

OffGridSpots == {<<0 - 1, 0 - 1>>, <<MapWidth, 1>>, <<0, CorridorHeight>>}

FaultPlayers == {None, Some(<<1, 1>>), Some(<<7, 1>>)}

FaultBehaviors ==
    {None, Some(Idle), Some(Investigating(<<2, 1>>)), Some(Attacking(Player))}

FaultObjects(player, monster_pos, behavior, ai) ==
    LET monster == Monster :> Object(monster_pos, TRUE, behavior,
                                     Some(Reach("Single", 1)),
                                     Some(Reach("Single", 1)), ai)
    IN IF player = None
       THEN monster
       ELSE (Player :> Object(player[1], TRUE, None, Some(Reach("Single", 1)),
                              Some(Reach("Single", 1)), None)) @@ monster

FaultInit ==
    /\ map \in OpenMaps
    /\ \E player \in FaultPlayers, monster_pos \in {MonsterStart} \cup OffGridSpots,
          behavior \in FaultBehaviors, ai \in {None, Some("Basic")} :
          /\ player # None => player[1] \notin map.blocked
          /\ objects = FaultObjects(player, monster_pos, behavior, ai)
    /\ sounds \in {{}, {MonsterStart}}
    /\ msg_log = <<>>
    /\ turn = None
    /\ call = [op |-> "none"]
    /\ entities = [pos |-> <<>>, blocks |-> <<>>, move_mode |-> <<>>]
    /\ stabs = {}
    /\ delta_pos = None
    /\ move_result = None
    /\ resolved = None
    /\ movement = None
    /\ ai_round = NoRound
    /\ momentum = None
    /\ momentum_calls = <<>>
    /\ reach_offsets = None
    /\ game = None

FaultSpec == FaultInit /\ [][AiNext]_vars

-----------------------------------------------------------------------------
(* Momentum, movement.rs 497-565: the struct and its methods, called in any  *)
(* order on one Momentum value.                                              *)

\* constants::MAX_MOMENTUM, the max of Momentum::default
MAX_MOMENTUM == 2

\* largest max field of a Momentum value
MaxMomentum == 3

\* number of calls made on a Momentum value
MaxCalls == 3

Min(a, b) == IF a < b THEN a ELSE b

\* utils::clamp
clamp(val, min, max) == IF val < min THEN min ELSE IF val > max THEN max ELSE val

\* Momentum::default (movement.rs 504-512)
Momentum_default == [mx |-> 0, my |-> 0, max |-> MAX_MOMENTUM]

\* Momentum::magnitude (523-529)
magnitude(self) == IF Abs(self.mx) > Abs(self.my) THEN Abs(self.mx) ELSE Abs(self.my)

\* Momentum::running (515-517)
running(self) == magnitude(self) # 0

\* as at_maximum, compared with the max of the value
at_maximum_own_max(self) == magnitude(self) = self.max

\* Momentum::at_maximum (519-521)
at_maximum(self) == magnitude(self) = MAX_MOMENTUM

\* Momentum::diagonal (531-533)
diagonal(self) == Abs(self.mx) # 0 /\ Abs(self.my) # 0

\* one axis of Momentum::moved (539-543, 545-549)
moved_axis(m, d, max) ==
    IF m # 0 /\ signum(d) # signum(m)
    THEN 0
    ELSE clamp(m + signum(d), 0 - max, max)

\* as moved, without the clamp
moved_unclamped(self, dx, dy) ==
    [self EXCEPT !.mx = IF @ # 0 /\ signum(dx) # signum(@) THEN 0 ELSE @ + signum(dx),
                 !.my = IF @ # 0 /\ signum(dy) # signum(@) THEN 0 ELSE @ + signum(dy)]

\* Momentum::moved (535-550)
moved(self, dx, dy) ==
    [self EXCEPT !.mx = moved_axis(@, dx, self.max),
                 !.my = moved_axis(@, dy, self.max)]

\* Momentum::set_momentum (552-555)
set_momentum(self, mx, my) == [self EXCEPT !.mx = mx, !.my = my]

\* Momentum::along (557-559)
along(self, dx, dy) == (self.mx * dx + self.my * dy) > 0

\* Momentum::clear (561-564)
clear(self) == [self EXCEPT !.mx = 0, !.my = 0]

\* the displacements handed to moved: the eight directions, no displacement
\* and two displacements of more than one tile
MovedDeltas == ((0 - 1)..1) \X ((0 - 1)..1) \cup {<<2, 0>>, <<0, 0 - 2>>}

\* the vectors handed to set_momentum, inside and outside [-max, max]
SetChoices ==
    {<<0, 0>>, <<1, 0 - 1>>, <<MAX_MOMENTUM, MAX_MOMENTUM>>,
     <<MaxMomentum + 1, 0>>, <<0, 0 - (MaxMomentum + 1)>>}

\* a Momentum at rest: Momentum::default, or a struct literal with another max
MomentumInit ==
    /\ momentum \in {[Momentum_default EXCEPT !.max = max] : max \in 1..MaxMomentum}
    /\ momentum_calls = <<>>
    /\ call = [op |-> "none"]
    /\ map = [width |-> 0, height |-> 0, walls |-> {}, blocked |-> {}]
    /\ entities = [pos |-> <<>>, blocks |-> <<>>, move_mode |-> <<>>]
    /\ stabs = {}
    /\ delta_pos = None
    /\ move_result = None
    /\ resolved = None
    /\ movement = None
    /\ objects = <<>>
    /\ sounds = {}
    /\ msg_log = <<>>
    /\ turn = None
    /\ ai_round = NoRound
    /\ reach_offsets = None
    /\ game = None

\* what no method of Momentum touches
MomentumFrame ==
    /\ UNCHANGED <<map, entities, stabs, delta_pos, move_result, resolved, movement>>
    /\ UNCHANGED ai_vars
    /\ UNCHANGED <<reach_offsets, game>>

\* momentum.moved(dx, dy)
MomentumMoved(dx, dy) ==
    /\ Len(momentum_calls) < MaxCalls
    /\ call' = [op |-> "moved", dx |-> dx, dy |-> dy]
    /\ momentum' = moved(momentum, dx, dy)
    /\ momentum_calls' = Append(momentum_calls, call')
    /\ MomentumFrame

\* momentum.set_momentum(mx, my)
SetMomentum(mx, my) ==
    /\ Len(momentum_calls) < MaxCalls
    /\ call' = [op |-> "set_momentum", mx |-> mx, my |-> my]
    /\ momentum' = set_momentum(momentum, mx, my)
    /\ momentum_calls' = Append(momentum_calls, call')
    /\ MomentumFrame

\* momentum.clear()
Clear ==
    /\ Len(momentum_calls) < MaxCalls
    /\ call' = [op |-> "clear"]
    /\ momentum' = clear(momentum)
    /\ momentum_calls' = Append(momentum_calls, call')
    /\ MomentumFrame

\* momentum.at_maximum(), a query
AtMaximum ==
    /\ call' = [op |-> "at_maximum", result |-> at_maximum(momentum)]
    /\ UNCHANGED <<momentum, momentum_calls>>
    /\ MomentumFrame

\* momentum.magnitude(), a query
Magnitude ==
    /\ call' = [op |-> "magnitude", result |-> magnitude(momentum)]
    /\ UNCHANGED <<momentum, momentum_calls>>
    /\ MomentumFrame

MomentumNext ==
    \/ \E d \in MovedDeltas : MomentumMoved(d[1], d[2])
    \/ \E m \in SetChoices : SetMomentum(m[1], m[2])
    \/ Clear
    \/ AtMaximum
    \/ Magnitude

MomentumSpec == MomentumInit /\ [][MomentumNext]_vars

-----------------------------------------------------------------------------
(* Reach::offsets and Reach::reachables (movement.rs 400-455) called on     *)
(* every Reach up to MaxDist, reachables from every position of the map.    *)

\* Reach::reachables (400-405): the offsets moved to start
reachables(reach, start) ==
    LET offs == offsets(reach)
    IN [i \in 1..Len(offs) |-> add_pos(start, offs[i])]

\* Reach::single, Reach::diag, Reach::horiz (movement.rs 297-307)
Reach_single(dist) == Reach("Single", dist)

Reach_diag(dist) == Reach("Single", dist)

Reach_horiz(dist) == Reach("Single", dist)

\* the constructor of the name
Reach_by(name, dist) ==
    CASE name = "single" -> Reach_single(dist)
      [] name = "diag" -> Reach_diag(dist)
      [] name = "horiz" -> Reach_horiz(dist)

\* the loop of Reach::closest_to (330-335) from the i-th offset on: closest
\* is replaced by pos + offset whenever that is strictly closer to other
RECURSIVE closest_to_loop(_, _, _, _, _)
closest_to_loop(offs, i, pos, other, closest) ==
    IF i > Len(offs) THEN closest
    ELSE IF distance(other, add_pos(pos, offs[i])) < distance(other, closest)
         THEN closest_to_loop(offs, i + 1, pos, other, add_pos(pos, offs[i]))
         ELSE closest_to_loop(offs, i + 1, pos, other, closest)

\* Reach::closest_to (325-338): closest starts as the first offset itself
closest_to(reach, pos, other) ==
    LET offs == offsets(reach)
    IN closest_to_loop(offs, 1, pos, other, offs[1])

\* the positions closest_to is called with
ClosestFrom == {<<0, 0>>, <<2, 2>>, <<5, 5>>}

ClosestTargets == {0, 1, 4, MapWidth - 1} \X {0, 1, 4, MapHeight - 1}

ReachInit ==
    /\ reach_offsets = None
    /\ game = None
    /\ call = [op |-> "none"]
    /\ map = [width |-> MapWidth, height |-> MapHeight, walls |-> {}, blocked |-> {}]
    /\ entities = [pos |-> <<>>, blocks |-> <<>>, move_mode |-> <<>>]
    /\ stabs = {}
    /\ delta_pos = None
    /\ move_result = None
    /\ resolved = None
    /\ movement = None
    /\ objects = <<>>
    /\ sounds = {}
    /\ msg_log = <<>>
    /\ turn = None
    /\ ai_round = NoRound
    /\ momentum = None
    /\ momentum_calls = <<>>

\* what no method of Reach touches
ReachFrame ==
    /\ UNCHANGED <<map, entities, stabs, delta_pos, move_result, resolved, movement>>
    /\ UNCHANGED ai_vars
    /\ UNCHANGED <<momentum, momentum_calls, game>>

\* reach.offsets()
Offsets(reach) ==
    /\ call' = [op |-> "offsets", reach |-> reach]
    /\ reach_offsets' = Some(offsets(reach))
    /\ ReachFrame

\* reach.reachables(start)
Reachables(reach, start) ==
    /\ call' = [op |-> "reachables", reach |-> reach, start |-> start]
    /\ reach_offsets' = Some(reachables(reach, start))
    /\ ReachFrame

\* Reach::single(dist), Reach::diag(dist), Reach::horiz(dist)
ReachBuilt(name, dist) ==
    /\ call' = [op |-> name, dist |-> dist, result |-> Reach_by(name, dist)]
    /\ reach_offsets' = None
    /\ ReachFrame

\* move_with_reach(action) on the Reach that was just built
MoveWithReach(action) ==
    /\ call.op \in {"single", "diag", "horiz"}
    /\ call' = [op |-> "move_with_reach", built_by |-> call.op, dist |-> call.dist,
                reach |-> call.result, action |-> action,
                result |-> move_with_reach(call.result, action)]
    /\ reach_offsets' = None
    /\ ReachFrame

\* reach.closest_to(pos, other); the method reads nothing but its arguments,
\* so it is called once, before any other method
ClosestTo(reach, pos, other) ==
    /\ call.op = "none"
    /\ call' = [op |-> "closest_to", reach |-> reach, pos |-> pos, other |-> other,
                result |-> closest_to(reach, pos, other)]
    /\ reach_offsets' = Some(offsets(reach))
    /\ ReachFrame

ReachNext ==
    \/ \E reach \in Reaches : Offsets(reach)
    \/ \E name \in {"single", "diag", "horiz"}, dist \in 1..MaxDist : ReachBuilt(name, dist)
    \/ \E action \in Directions : MoveWithReach(action)
    \/ \E reach \in Reaches, pos \in ClosestFrom, other \in ClosestTargets :
          ClosestTo(reach, pos, other)
    \/ \E reach \in Reaches, start \in (0..(MapWidth - 1)) \X (0..(MapHeight - 1)) :
          Reachables(reach, start)

ReachSpec == ReachInit /\ [][ReachNext]_vars

-----------------------------------------------------------------------------
(* The input handler (roguelike_engine/src/actions.rs): handle_input turns   *)
(* one InputAction into the player's Action for the turn and applies what    *)
(* the input changes at once.  game holds the fields of the player and of    *)
(* the items that the handler reads or writes, the settings and the display  *)
(* state; the player's position and move mode are those of entities, the     *)
(* planner's view of the objects, and the map is the planner's map.          *)

\* the items of the game: two stones and a potion
ItemIds == {"stone", "stone2", "potion"}

\* Object::item of the items
ItemOf(id) == IF id = "potion" THEN Some("Heal") ELSE Some("Stone")

\* where an item lies that is held in an inventory (pick_item_up 187)
Held == <<0 - 1, 0 - 1>>

\* where an item lies that is neither held nor at the player's feet
Aside == <<2, 2>>

\* MoveMode::increase
increase(mode) ==
    CASE mode = "Sneak" -> "Walk"
      [] mode = "Walk" -> "Run"
      [] mode = "Run" -> "Run"

\* MoveMode::decrease
decrease(mode) ==
    CASE mode = "Sneak" -> "Sneak"
      [] mode = "Walk" -> "Sneak"
      [] mode = "Run" -> "Walk"

\* utils::reach_by_mode: a sneaking or walking entity moves one tile, a
\* running one two
reach_by_mode(mode) ==
    CASE mode = "Sneak" -> Reach("Single", 1)
      [] mode = "Walk" -> Reach("Single", 1)
      [] mode = "Run" -> Reach("Single", 2)

\* let god_mode_hp = 1000000
god_mode_hp == 1000000

ActionPickup(item_id) == [kind |-> "Pickup", item_id |-> item_id]

ActionThrowStone(throw_pos, stone_handle) ==
    [kind |-> "ThrowStone", throw_pos |-> throw_pos, stone_handle |-> stone_handle]

ActionYell == [kind |-> "Yell"]

\* the cells of the map that are clicked
ClickCells == {<<7, 5>>, <<0, 0>>}

\* the directions the player is moved in
InputMoves == {"Right", "Left", "Up", "DownLeft"}

\* the values of InputAction that handle_input matches
InputActions ==
    {[kind |-> "Move", move_action |-> dir] : dir \in InputMoves}
      \cup {[kind |-> "MapClick", map_cell |-> cell] : cell \in ClickCells}
      \cup {[kind |-> k] : k \in {"Pickup", "Yell", "IncreaseMoveMode", "DecreaseMoveMode",
                                  "Inventory", "Exit", "ExploreAll", "RegenerateMap",
                                  "ToggleOverlays", "GodMode"}}

\* the first index of the inventory that holds a stone, 0 if none does
\* (the loop 93-99)
stone_index(inventory) ==
    LET stones == {i \in 1..Len(inventory) : game.items[inventory[i]].item = Some("Stone")}
    IN IF stones = {} THEN 0 ELSE CHOOSE i \in stones : \A j \in stones : i <= j

\* Vec::remove(index)
remove(seq, index) == [i \in 1..(Len(seq) - 1) |-> IF i < index THEN seq[i] ELSE seq[i + 1]]

\* the items at the player's feet (the filter 82-84)
items_here ==
    {id \in DOMAIN game.items :
        game.items[id].pos = entities.pos[Player] /\ game.items[id].item # None}

\* the arm for Move (64-78)
input_move(unchanged, move_action) ==
    LET maybe_movement == calculate_move(move_action, game.movement[1], Player)
    IN IF maybe_movement # None
       THEN [unchanged EXCEPT !.player_turn = ActionMove(maybe_movement[1])]
       ELSE unchanged

\* the arm for Pickup (80-88)
input_pickup(unchanged) ==
    IF items_here # {}
    THEN [unchanged EXCEPT !.player_turn = ActionPickup(CHOOSE id \in items_here : TRUE)]
    ELSE unchanged

\* the arm for MapClick (90-105)
input_map_click(unchanged, map_cell) ==
    LET index == stone_index(game.inventory)
    IN IF index # 0
       THEN [unchanged EXCEPT
                !.player_turn = ActionThrowStone(map_cell, game.inventory[index]),
                !.game = [game EXCEPT !.inventory = remove(game.inventory, index)]]
       ELSE unchanged

\* the arms for IncreaseMoveMode and DecreaseMoveMode (111-126)
input_move_mode(unchanged, mode) ==
    [unchanged EXCEPT !.move_mode = mode,
                      !.game = [game EXCEPT !.movement = Some(reach_by_mode(mode))]]

\* the arm for GodMode (155-174)
input_god_mode(unchanged) ==
    [unchanged EXCEPT
        !.game = [game EXCEPT !.hp = god_mode_hp, !.max_hp = god_mode_hp, !.god_mode = TRUE],
        !.map = [map EXCEPT !.blocked = {}]]

\* handle_input 51-181: the action returned and what the call leaves in the
\* game, the map and the player's move mode; made_map is the map that
\* generation::make_map returns.  The arms of the match are tried in the
\* order of the code; the last one matches every other pair.
handle_input(input_action, made_map) ==
    LET player_alive == game.alive
        kind == input_action.kind
        unchanged == [player_turn |-> NoAction, game |-> game, map |-> map,
                      move_mode |-> entities.move_mode[Player]]
    IN CASE kind = "Move" /\ player_alive ->
               input_move(unchanged, input_action.move_action)
         [] kind = "Pickup" /\ player_alive ->
               input_pickup(unchanged)
         [] kind = "MapClick" ->
               input_map_click(unchanged, input_action.map_cell)
         [] kind = "Yell" /\ player_alive ->
               [unchanged EXCEPT !.player_turn = ActionYell]
         [] kind = "IncreaseMoveMode" /\ player_alive ->
               input_move_mode(unchanged, increase(entities.move_mode[Player]))
         [] kind = "DecreaseMoveMode" /\ player_alive ->
               input_move_mode(unchanged, decrease(entities.move_mode[Player]))
         [] kind = "Inventory" /\ player_alive ->
               unchanged
         [] kind = "Exit" ->
               [unchanged EXCEPT !.game = [game EXCEPT !.exiting = TRUE]]
         [] kind = "ExploreAll" ->
               [unchanged EXCEPT !.game = [game EXCEPT !.explored = TRUE]]
         [] kind = "RegenerateMap" ->
               [unchanged EXCEPT !.map = made_map]
         [] kind = "ToggleOverlays" ->
               [unchanged EXCEPT !.game = [game EXCEPT !.display_overlays = ~game.display_overlays]]
         [] kind = "GodMode" /\ player_alive ->
               input_god_mode(unchanged)
         [] OTHER -> unchanged

\* the maps the game is played on: an open one, one with a short wall on the
\* edge to the right of the player, one with a blocked tile there
InputMaps ==
    {[width |-> MapWidth, height |-> MapHeight, walls |-> walls, blocked |-> tiles] :
        walls \in {{}}, tiles \in {{}, {ray_tile("Right", 1)}}}
      \cup {[width |-> MapWidth, height |-> MapHeight, walls |-> {w}, blocked |-> {}] :
              w \in {v \in RayWalls("Right") : v.typ = "ShortWall" /\ v.pos = ray_tile("Right", 1)}}

\* what the player holds
InputInventories == {<<>>, <<"stone">>, <<"potion", "stone">>, <<"stone", "stone2">>}

\* the items: a held one lies at (-1, -1), at most one lies at the player's
\* feet, the others aside
InputItems(inventory, floor) ==
    [id \in ItemIds |->
        [pos |-> IF \E i \in 1..Len(inventory) : inventory[i] = id THEN Held
                 ELSE IF floor = Some(id) THEN PlayerStart
                 ELSE Aside,
         item |-> ItemOf(id)]]

\* the hit points the player starts with
PlayerHp == 10

\* number of inputs handled in one run of the game
MaxInputs == 3

\* the inputs handled so far
inputs_handled == IF call.op = "handle_input" THEN call.inputs ELSE 0

InputInit ==
    /\ map \in InputMaps
    /\ \E mode \in MoveModes, alive \in BOOLEAN, inventory \in InputInventories :
         \E floor \in {None} \cup {Some(id) : id \in {i \in ItemIds :
                                       \A k \in 1..Len(inventory) : inventory[k] # i}} :
            /\ entities = Entities(None, mode)
            /\ game = [alive |-> alive,
                       inventory |-> inventory,
                       movement |-> Some(reach_by_mode(mode)),
                       items |-> InputItems(inventory, floor),
                       hp |-> IF alive THEN PlayerHp ELSE 0,
                       max_hp |-> PlayerHp,
                       exiting |-> FALSE,
                       god_mode |-> FALSE,
                       display_overlays |-> FALSE,
                       explored |-> FALSE]
    /\ stabs = {}
    /\ call = [op |-> "none"]
    /\ delta_pos = None
    /\ move_result = None
    /\ resolved = None
    /\ movement = None
    /\ objects = <<>>
    /\ sounds = {}
    /\ msg_log = <<>>
    /\ turn = None
    /\ ai_round = NoRound
    /\ momentum = None
    /\ momentum_calls = <<>>
    /\ reach_offsets = None

\* handle_input(input_action, game_data, settings, display_state, config),
\* called for the inputs of the game until settings.exiting is set, for
\* MaxInputs inputs at most
HandleInput(input_action) ==
    \E made_map \in IF input_action.kind = "RegenerateMap" THEN InputMaps ELSE {map} :
        \E done \in {handle_input(input_action, made_map)} :
           /\ ~game.exiting
           /\ inputs_handled < MaxInputs
           /\ call' = [op |-> "handle_input", input_action |-> input_action,
                       player_alive |-> game.alive, player_turn |-> done.player_turn,
                       inputs |-> inputs_handled + 1]
           /\ game' = done.game
           /\ map' = done.map
           /\ entities' = [entities EXCEPT !.move_mode[Player] = done.move_mode]
           /\ UNCHANGED <<stabs, delta_pos, move_result, resolved, movement>>
           /\ UNCHANGED ai_vars
           /\ UNCHANGED <<momentum, momentum_calls, reach_offsets>>

InputNext == \E input_action \in InputActions : HandleInput(input_action)

InputSpec == InputInit /\ [][InputNext]_vars

-----------------------------------------------------------------------------
(* Turns without end: the monster takes turn after turn while the player     *)
(* stands still.  The records of a turn are consumed by the renderer when    *)
(* the turn is over, so the log is empty again when the next turn starts.    *)
(* The worlds are those of the Attacking monster with a live player and      *)
(* those of the Investigating monster without a sound, on the maps with at   *)
(* most one obstruction.                                                     *)

\* a monster Attacking the live player
ChaseWorlds ==
    /\ map \in SparseMaps
    /\ \E player_pos \in PlayerSpots \ map.blocked :
          \E attack_reach \in AttackReaches, movement_reach \in MovementReaches :
              objects = Objects(player_pos, TRUE, Attacking(Player),
                                attack_reach, movement_reach)
    /\ sounds = {}

\* a monster Investigating a position, no sound
SearchWorlds ==
    /\ map \in SparseMaps
    /\ \E player_pos \in PlayerSpots \ map.blocked, target_pos \in InvestigateSpots :
          objects = Objects(player_pos, TRUE, Investigating(target_pos),
                            Reach("Single", 1), Reach("Single", 1))
    /\ sounds = {}

TurnsInit ==
    /\ ChaseWorlds \/ SearchWorlds
    /\ msg_log = <<>>
    /\ turn = None
    /\ call = [op |-> "none"]
    /\ entities = [pos |-> <<>>, blocks |-> <<>>, move_mode |-> <<>>]
    /\ stabs = {}
    /\ delta_pos = None
    /\ move_result = None
    /\ resolved = None
    /\ movement = None
    /\ ai_round = NoRound
    /\ momentum = None
    /\ momentum_calls = <<>>
    /\ reach_offsets = None
    /\ game = None

\* ai_take_turn returns and the records of the turn are consumed
TurnConsumed ==
    /\ call.op = "ai_apply_actions"
    /\ call' = [op |-> "none"]
    /\ turn' = None
    /\ msg_log' = <<>>
    /\ UNCHANGED <<map, sounds, objects>>
    /\ UNCHANGED <<entities, stabs, delta_pos, move_result, resolved, movement>>
    /\ UNCHANGED <<ai_round, value_vars>>

TurnsNext ==
    \/ AiTakeTurn(Monster)
    \/ AiApplyActions
    \/ TurnConsumed

\* a turn that was begun is finished: ai_take_turn applies the Action it has
\* decided on and returns (ai.rs 24-27)
TurnsSpec ==
    TurnsInit /\ [][TurnsNext]_vars /\ WF_vars(AiApplyActions) /\ WF_vars(TurnConsumed)

-----------------------------------------------------------------------------
(* Vocabulary of the properties *)

Moved == call.op = "calculate_move"

MoverPos == entities.pos[call.entity_id]

Collision == move_result[1]

\* the reach lets the mover go in the requested direction
Permitted(reach, dir) ==
    \/ reach.kind = "Single"
    \/ reach.kind = "Diag" /\ dir \in {"DownLeft", "DownRight", "UpLeft", "UpRight"}
    \/ reach.kind = "Horiz" /\ dir \in {"Left", "Right", "Up", "Down"}

Scale(d, v) == <<d * v[1], d * v[2]>>

EntityOnly ==
    /\ Moved /\ move_result # None
    /\ Collision.blocked = None /\ Collision.entity # None

WallOnly ==
    /\ Moved /\ move_result # None
    /\ Collision.blocked # None /\ Collision.entity = None

WallAndEntity ==
    /\ Moved /\ move_result # None
    /\ Collision.blocked # None /\ Collision.entity # None

Jumpable(blocked) == ~blocked.blocked_tile /\ blocked.wall_type = "ShortWall"

Running == entities.move_mode[call.entity_id] = "Run"

-----------------------------------------------------------------------------
(* C1 *)

\* C1: calculate_move never returns a Movement that ends on the mover's own
\* position without an attack, and a resolved movement of that kind is
\* returned as None.
C1_NoWastedMove ==
    Moved =>
        /\ movement # None /\ movement[1].pos = MoverPos => movement[1].attack # None
        /\ resolved # None /\ resolved[1].pos = MoverPos /\ resolved[1].attack = None
              => movement = None

\* a move that resolved to the mover's own tile without an attack
C1_Witness ==
    /\ Moved /\ resolved # None
    /\ resolved[1].pos = MoverPos /\ resolved[1].attack = None
    /\ movement = None

-----------------------------------------------------------------------------
(* C2 *)

\* C2: a direction the reach does not permit (a cardinal one for Diag, a
\* diagonal one for Horiz) gives no offset and calculate_move returns None;
\* for a permitted direction the offset is the reach's distance times the
\* unit vector of the direction.
C2_ReachPermits ==
    Moved =>
        /\ ~Permitted(call.reach, call.action) => delta_pos = None /\ movement = None
        /\ Permitted(call.reach, call.action) =>
              delta_pos = Some(Scale(call.reach.dist, into_move(call.action)))

\* a Diag reach asked to go Left
C2_Witness ==
    /\ Moved /\ call.reach.kind = "Diag" /\ call.action = "Left" /\ movement = None

-----------------------------------------------------------------------------
(* C3 *)

\* the point of the line from pos by delta just before target (pos itself
\* when target is the first point)
BeforeOnLine(pos, delta, target) ==
    LET l == line_inclusive(pos, add_pos(pos, delta))
        at == CHOOSE i \in 1..Len(l) : l[i] = target
    IN IF at = 1 THEN pos ELSE l[at - 1]

\* C3: when only an entity blocks the line, the movement stabs it if the
\* mover can stab it, else pushes it by the mover's own delta if it blocks,
\* else is a plain Move to the position just before it.
C3_BlockedByEntity ==
    EntityOnly =>
        LET other == Collision.entity[1]
        IN /\ resolved # None /\ movement = resolved
           /\ can_stab(call.entity_id, other) =>
                 movement[1].attack = Some(AttackStab(other))
           /\ ~can_stab(call.entity_id, other) /\ entities.blocks[other] =>
                 movement[1].attack = Some(AttackPush(other, delta_pos[1]))
           /\ ~can_stab(call.entity_id, other) /\ ~entities.blocks[other] =>
                 resolved = Some(move_to(BeforeOnLine(MoverPos, delta_pos[1],
                                                      entities.pos[other]), "Move"))

\* a push over more than one tile
C3_Witness ==
    /\ EntityOnly /\ movement # None /\ movement[1].attack # None
    /\ movement[1].attack[1].kind = "Push"
    /\ call.reach.dist >= 2

-----------------------------------------------------------------------------
(* C4 *)

\* C4: blocked by a wall only, running, and the wall a ShortWall edge that
\* is no blocked tile: the movement is a JumpWall to the far side of the
\* wall, the end position of the wall hit.
C4_JumpShortWall ==
    WallOnly /\ Running /\ Jumpable(Collision.blocked[1]) =>
        /\ movement # None
        /\ movement[1].typ = "JumpWall"
        /\ movement[1].pos = Collision.blocked[1].end_pos
        /\ wall_between(Collision.blocked[1].start_pos, movement[1].pos) = "ShortWall"

\* a jump over a wall that is not next to the mover, in a move of three tiles
C4_Witness ==
    /\ WallOnly /\ Running /\ Jumpable(Collision.blocked[1])
    /\ Collision.blocked[1].start_pos # MoverPos
    /\ call.reach.dist = 3
    /\ movement # None /\ movement[1].typ = "JumpWall"

-----------------------------------------------------------------------------
(* C5 *)

\* one step of a line that the mover may not take: off the map, onto a
\* blocked tile, over a TallWall, or over a ShortWall unless running
Barrier(pos, target) ==
    \/ ~is_within_bounds(target)
    \/ is_blocked_tile(target)
    \/ wall_between(pos, target) = "TallWall"
    \/ wall_between(pos, target) = "ShortWall" /\ ~Running

CrossesBarrier(pos, dest) ==
    LET l == <<pos>> \o line_inclusive(pos, dest)
    IN dest # pos /\ \E i \in 1..(Len(l) - 1) : Barrier(l[i], l[i + 1])

\* C5: a TallWall edge or a blocked tile is never crossed, in any move mode
\* and for any reach, nor a ShortWall edge when sneaking or walking: the
\* movement returned never ends beyond such an obstruction and is a JumpWall
\* only over a ShortWall edge when running.
C5_NeverCrossed ==
    Moved /\ movement # None =>
        /\ ~CrossesBarrier(MoverPos, movement[1].pos)
        /\ movement[1].typ = "JumpWall" =>
              Running /\ Jumpable(Collision.blocked[1])

\* what the wall outcomes guarantee: a reported wall hit that cannot be
\* jumped stops the mover at or before the hit's last free position
C5_ReportedHitStops ==
    Moved /\ movement # None /\ move_result # None /\ Collision.blocked # None
          /\ ~(Running /\ Jumpable(Collision.blocked[1])) =>
        /\ movement[1].typ # "JumpWall"
        /\ distance(MoverPos, movement[1].pos)
              <= distance(MoverPos, Collision.blocked[1].start_pos)

-----------------------------------------------------------------------------
(* C6 *)

BlockerPos == entities.pos[Collision.entity[1]]

EntityCloser ==
    distance(MoverPos, BlockerPos) < distance(MoverPos, Collision.blocked[1].start_pos)

WallCloser ==
    distance(MoverPos, BlockerPos) > distance(MoverPos, Collision.blocked[1].start_pos)

StabOrPush ==
    IF can_stab(call.entity_id, Collision.entity[1])
    THEN AttackStab(Collision.entity[1])
    ELSE AttackPush(Collision.entity[1], delta_pos[1])

C6_EntityCloserReached == WallAndEntity /\ EntityCloser

-----------------------------------------------------------------------------
(* C7 *)

\* C7: with a wall and an entity on the line at the same distance (the
\* entity stands on the wall's last free position) the wall wins: a plain
\* Move to that position, without attack, whatever the move mode and
\* whether or not the mover can stab.
C7_TieWallWins ==
    WallAndEntity /\ ~EntityCloser /\ ~WallCloser =>
        movement = Some(move_to(Collision.blocked[1].start_pos, "Move"))

\* a tie for a running mover that can stab, at a ShortWall
C7_Witness ==
    /\ WallAndEntity /\ ~EntityCloser /\ ~WallCloser
    /\ Running /\ can_stab(call.entity_id, Collision.entity[1])
    /\ Jumpable(Collision.blocked[1])
    /\ movement # None

-----------------------------------------------------------------------------
(* C8 *)

\* the mover is at (5,5) and is asked to go Right
RightFrom55 ==
    /\ Moved /\ MoverPos = <<5, 5>> /\ call.action = "Right"
    /\ Permitted(call.reach, call.action)

\* C8: at (5,5) with a TallWall on the edge to (6,5) and no entity in the
\* way, moving Right by 1 resolves to a Move to (5,5), which calculate_move
\* returns as None.
C8_TallWallScenario ==
    RightFrom55 /\ call.reach.dist = 1 /\ left_wall(<<6, 5>>) = "TallWall"
                /\ has_blocking_entity(<<6, 5>>) = None =>
        /\ resolved = Some(move_to(<<5, 5>>, "Move"))
        /\ movement = None

C8_Witness ==
    /\ RightFrom55 /\ call.reach.dist = 1 /\ left_wall(<<6, 5>>) = "TallWall"
    /\ has_blocking_entity(<<6, 5>>) = None
    /\ movement = None

-----------------------------------------------------------------------------
(* C9 *)

\* a running mover at (5,5), a ShortWall on the edge to (6,5), (6,5) and
\* (7,5) free and no entity on the line
ShortWallScenario ==
    /\ RightFrom55 /\ Running
    /\ left_wall(<<6, 5>>) = "ShortWall"
    /\ ~is_blocked_tile(<<6, 5>>) /\ ~is_blocked_tile(<<7, 5>>)
    /\ has_blocking_entity(<<6, 5>>) = None /\ has_blocking_entity(<<7, 5>>) = None
    /\ Collision.entity = None

\* C9 as claimed: the mover, going Right by the two tiles of a run, gets a
\* JumpWall to (7,5).
C9_JumpTo75 ==
    ShortWallScenario /\ call.reach.dist = 2 =>
        movement # None /\ movement[1].typ = "JumpWall" /\ movement[1].pos = <<7, 5>>

\* C9 amended: the mover gets a JumpWall to (6,5), the tile just behind the
\* wall, however far the reach goes.
C9_JumpTo65 ==
    ShortWallScenario =>
        movement # None /\ movement[1].typ = "JumpWall" /\ movement[1].pos = <<6, 5>>

C9_Witness ==
    /\ ShortWallScenario /\ call.reach.dist = 2
    /\ movement # None /\ movement[1].typ = "JumpWall"

-----------------------------------------------------------------------------
(* C10 *)

\* C10: check_collision(p, 0, 0) reports no wall and no entity and the
\* position p, whatever stands on and around p.
C10_ZeroMove ==
    call.op = "check_collision" /\ call.dx = 0 /\ call.dy = 0 =>
        /\ no_collision(Collision)
        /\ Collision.move_pos = call.pos

\* a zero move from a tile with a wall on an edge of it and a blocking
\* entity next to it; the same world makes a move of one tile collide
C10_Witness ==
    /\ call.op = "check_collision" /\ call.dx = 0 /\ call.dy = 0
    /\ \E dir \in Directions :
          /\ wall_between(call.pos, add_pos(call.pos, into_move(dir))) # "Empty"
          /\ has_blocking_entity(add_pos(call.pos, into_move(dir))) # None
    /\ has_blocking_entity(call.pos) # None
    /\ no_collision(Collision)

-----------------------------------------------------------------------------
(* Vocabulary of the properties of the monsters' turns *)

\* the Action has been decided and is not yet applied
Deciding == call.op = "ai_take_turn"

\* the Action has been applied
Applied == call.op = "ai_apply_actions"

Decided == turn[1]

MonsterPos == objects[Monster].pos

PlayerPos == objects[Player].pos

BehaviorIs(kind) ==
    objects[Monster].behavior # None /\ objects[Monster].behavior[1].kind = kind

SeesPlayer == is_in_fov(MonsterPos, PlayerPos, MONSTER_VIEW_DIST)

Heard == {s \in sounds : distance(MonsterPos, s) <= SOUND_RADIUS}

-----------------------------------------------------------------------------
\* C11: an Idle monster inside the map decides by priority: the player in its
\* field of view makes it StateChange(Attacking(player)), also when a sound
\* is within earshot; otherwise a sound within earshot makes it
\* StateChange(Investigating(position of the sound)); otherwise it decides
\* NoAction, and applying that leaves it Idle where it stands.
C11_IdleDecision ==
    (Deciding /\ BehaviorIs("Idle") /\ is_within_bounds(MonsterPos)) =>
        /\ SeesPlayer => Decided = StateChange(Attacking(Player))
        /\ (~SeesPlayer /\ Heard # {}) =>
              \E s \in Heard : Decided = StateChange(Investigating(s))
        /\ (~SeesPlayer /\ Heard = {}) => Decided = NoAction

C11_IdleStays ==
    (AiApplyActions /\ BehaviorIs("Idle") /\ Decided = NoAction) =>
        /\ objects'[Monster].behavior = Some(Idle)
        /\ objects'[Monster].pos = MonsterPos
        /\ objects' = objects

C11_IdlePriority == [](C11_IdleDecision) /\ [][C11_IdleStays]_vars

\* an Idle monster that sees the player and hears a sound turns to the player
C11_Witness ==
    /\ Deciding /\ BehaviorIs("Idle") /\ is_within_bounds(MonsterPos)
    /\ SeesPlayer /\ Heard # {}
    /\ Decided = StateChange(Attacking(Player))


-----------------------------------------------------------------------------
\* C12: a turn on which an Idle or Investigating monster changes to
\* Attacking(player) changes nothing else: deciding it leaves the objects as
\* they are, and applying it sets the monster's behaviour to Attacking(player),
\* moves no object, harms no object and logs the change of state alone.
TurnsOnPlayer ==
    /\ BehaviorIs("Idle") \/ BehaviorIs("Investigating")
    /\ turn'[1] = StateChange(Attacking(Player))

C12_DecisionInert ==
    (AiTakeTurn(Monster) /\ TurnsOnPlayer) => objects' = objects /\ msg_log' = msg_log

C12_ApplicationInert ==
    (AiApplyActions /\ TurnsOnPlayer) =>
        /\ objects'[Monster].behavior = Some(Attacking(Player))
        /\ \A id \in ObjectIds :
              /\ objects'[id].pos = objects[id].pos
              /\ objects'[id].hp = objects[id].hp
              /\ objects'[id].alive = objects[id].alive
        /\ msg_log' = Append(msg_log, [msg |-> "StateChange", object |-> Monster,
                                       behavior |-> Attacking(Player)])

C12_StateChangeTurnInert == [][C12_DecisionInert]_vars /\ [][C12_ApplicationInert]_vars

\* the monster has turned on the player it saw and nothing else happened
C12_Witness ==
    /\ Applied
    /\ Decided = StateChange(Attacking(Player))
    /\ objects[Monster].behavior = Some(Attacking(Player))
    /\ MonsterPos = MonsterStart
    /\ objects[Player].hp = 2
    /\ Len(msg_log) = 1 /\ msg_log[1].msg = "StateChange"


-----------------------------------------------------------------------------
\* C13: an Investigating(target) monster that sees the player decides
\* StateChange(Attacking(player)) wherever it stands; one that does not see the
\* player and stands on its target (the position of a sound it hears, else
\* the target it had) decides StateChange(Idle); otherwise it decides a Move
\* by one step along the A* path to the target.

\* the target after the decision: a sound heard out of sight of the player
\* has replaced it
InvestigatedTarget == objects[Monster].behavior[1].pos

\* the offset leads onto the second point of the path, or is zero when there
\* is no such point or the point is blocked
OneAstarStep(offset, target) ==
    LET path == astar(MonsterPos, target)
    IN IF Len(path) > 1 /\ ~data_is_blocked_tile(path[2])
       THEN add_pos(MonsterPos, offset) = path[2]
       ELSE offset = <<0, 0>>

C13_InvestigatingDecision ==
    (Deciding /\ BehaviorIs("Investigating") /\ is_within_bounds(MonsterPos)) =>
        /\ SeesPlayer => Decided = StateChange(Attacking(Player))
        /\ ~SeesPlayer =>
              /\ Heard # {} => InvestigatedTarget \in Heard
              /\ InvestigatedTarget = MonsterPos => Decided = StateChange(Idle)
              /\ InvestigatedTarget # MonsterPos =>
                    /\ Decided.kind = "Move"
                    /\ Decided.movement.kind = "Move"
                    /\ OneAstarStep(Decided.movement.offset, InvestigatedTarget)

\* a monster standing on the target it investigates sees the player
C13_Witness ==
    /\ Deciding /\ BehaviorIs("Investigating") /\ is_within_bounds(MonsterPos)
    /\ InvestigatedTarget = MonsterPos
    /\ SeesPlayer
    /\ Decided = StateChange(Attacking(Player))

\* a monster out of sight of the player steps towards its target
C13_StepReached ==
    /\ Deciding /\ BehaviorIs("Investigating") /\ ~SeesPlayer
    /\ Decided.kind = "Move" /\ Decided.movement.offset # <<0, 0>>

\* a monster out of sight of the player has arrived
C13_IdleReached ==
    /\ Deciding /\ BehaviorIs("Investigating") /\ ~SeesPlayer
    /\ Decided = StateChange(Idle)


-----------------------------------------------------------------------------
\* C14: an Attacking monster whose target is alive decides an attack on the
\* target exactly when the target is in its field of view (MONSTER_VIEW_DIST)
\* and stands on the monster's position plus one of the offsets of the
\* monster's attack reach.
TargetId == objects[Monster].behavior[1].target

TargetPos == objects[TargetId].pos

SeesTarget == is_in_fov(MonsterPos, TargetPos, MONSTER_VIEW_DIST)

AttackOffsets == offsets(objects[Monster].attack[1])

InAttackReach ==
    \E i \in 1..Len(AttackOffsets) : add_pos(MonsterPos, AttackOffsets[i]) = TargetPos

AttacksTarget ==
    /\ Decided.kind = "Move"
    /\ Decided.movement.kind = "Attack"
    /\ Decided.movement.target = TargetId

AttackingLive ==
    /\ Deciding /\ BehaviorIs("Attacking") /\ is_within_bounds(MonsterPos)
    /\ objects[TargetId].alive

C14_AttackIffHit ==
    AttackingLive => (AttacksTarget <=> (SeesTarget /\ InAttackReach))

\* the monster attacks the target it sees within its attack reach
C14_Witness ==
    AttackingLive /\ SeesTarget /\ InAttackReach /\ AttacksTarget

\* a target within the attack reach and out of sight is not attacked
C14_HiddenReached ==
    AttackingLive /\ ~SeesTarget /\ InAttackReach /\ ~AttacksTarget


-----------------------------------------------------------------------------
\* C15: an Attacking monster whose target is dead decides
\* StateChange(Investigating(position of the target)), also when the target
\* is in its field of view and within its attack reach, and applying that
\* neither moves nor harms any object.
AttackingDead ==
    /\ BehaviorIs("Attacking") /\ is_within_bounds(MonsterPos)
    /\ ~objects[TargetId].alive

C15_DeadDecision ==
    (Deciding /\ AttackingDead) => Decided = StateChange(Investigating(TargetPos))

C15_DeadApplication ==
    (AiApplyActions /\ AttackingDead) =>
        /\ objects'[Monster].behavior = Some(Investigating(TargetPos))
        /\ \A id \in ObjectIds :
              /\ objects'[id].pos = objects[id].pos
              /\ objects'[id].hp = objects[id].hp

C15_DeadTargetInvestigated == [](C15_DeadDecision) /\ [][C15_DeadApplication]_vars

\* the dead target is in sight and within the attack reach, and the monster
\* has turned to investigating its position
C15_Witness ==
    /\ Applied
    /\ Decided = StateChange(Investigating(PlayerPos))
    /\ objects[Monster].behavior = Some(Investigating(PlayerPos))
    /\ ~objects[Player].alive /\ objects[Player].hp = 0
    /\ SeesPlayer
    /\ \E i \in 1..Len(AttackOffsets) : add_pos(MonsterPos, AttackOffsets[i]) = PlayerPos
    /\ MonsterPos = MonsterStart
    /\ Len(msg_log) = 1


-----------------------------------------------------------------------------
\* C16: an Attacking monster that cannot hit its live target and has a wall
\* on the straight line to it decides StateChange(Investigating(position of
\* the target)) and no move.
WallToTarget ==
    is_blocked_by_wall(MonsterPos, TargetPos[1] - MonsterPos[1],
                       TargetPos[2] - MonsterPos[2])

C16_WallMakesInvestigate ==
    (AttackingLive /\ ~(SeesTarget /\ InAttackReach) /\ WallToTarget # None) =>
        Decided = StateChange(Investigating(TargetPos))

\* a wall stands on the edge between the monster and the next tile of the
\* line to a target that a reach of Single(1) does not hit
C16_Witness ==
    /\ AttackingLive
    /\ objects[Monster].attack = Some(Reach("Single", 1))
    /\ ~InAttackReach
    /\ WallToTarget # None
    /\ WallToTarget[1].wall_type # "Empty" /\ ~WallToTarget[1].blocked_tile
    /\ WallToTarget[1].start_pos = MonsterPos
    /\ Decided = StateChange(Investigating(TargetPos))


-----------------------------------------------------------------------------
\* C17: when an Attacking monster approaches its target, every candidate
\* tile is reached by its movement reach, lies inside the map, is not blocked
\* and is a tile from which its attack reach hits the target, and the tile it
\* paths towards, when there are candidates, is not blocked.

\* the monster neither hits its live target nor has a wall on the line to it
Approaching ==
    /\ AttackingLive
    /\ ~(SeesTarget /\ InAttackReach)
    /\ WallToTarget = None
    /\ objects[Monster].movement # None

Candidates ==
    hit_positions(MonsterPos, TargetPos, objects[Monster].attack[1],
                  objects[Monster].movement[1])

ReachedByMovement(pos) ==
    \E dir \in Directions :
        LET off == move_with_reach(objects[Monster].movement[1], dir)
        IN off # None /\ pos = add_pos(MonsterPos, off[1])

HitsFrom(pos) ==
    /\ is_in_fov(pos, TargetPos, MONSTER_VIEW_DIST)
    /\ \E i \in 1..Len(AttackOffsets) : add_pos(pos, AttackOffsets[i]) = TargetPos

C17_CandidatesUnblocked ==
    Approaching =>
        /\ \A i \in 1..Len(Candidates) :
              /\ ReachedByMovement(Candidates[i])
              /\ is_within_bounds(Candidates[i])
              /\ ~data_is_blocked_tile(Candidates[i])
              /\ HitsFrom(Candidates[i])
        /\ Len(Candidates) > 0 =>
              ~data_is_blocked_tile(approach_target(Monster, TargetPos))

\* what the candidates are: tiles the movement reaches, inside the map, from
\* which the attack hits, and blocked
C17_CandidatesBlocked ==
    Approaching =>
        \A i \in 1..Len(Candidates) :
            /\ ReachedByMovement(Candidates[i])
            /\ is_within_bounds(Candidates[i])
            /\ data_is_blocked_tile(Candidates[i])
            /\ HitsFrom(Candidates[i])


-----------------------------------------------------------------------------
\* C18: among the candidate tiles of an approaching monster the tile chosen
\* is the closest to the target, and of equally close candidates the first
\* in the order of the offsets of the movement reach (Reach::offsets) is
\* chosen.
Chosen == approach_target(Monster, TargetPos)

IsCandidate(pos) == \E i \in 1..Len(Candidates) : Candidates[i] = pos

CandidateSet == {Candidates[i] : i \in 1..Len(Candidates)}

\* squared Euclidean distance
EuclidSq(a, b) == (a[1] - b[1]) * (a[1] - b[1]) + (a[2] - b[2]) * (a[2] - b[2])

\* the place of a tile in the offsets of the movement reach
OffsetsIndex(pos) ==
    LET offs == offsets(objects[Monster].movement[1])
    IN CHOOSE i \in 1..Len(offs) :
          /\ add_pos(MonsterPos, offs[i]) = pos
          /\ \A j \in 1..(i - 1) : add_pos(MonsterPos, offs[j]) # pos

\* the place of a tile in the order of Direction::move_actions
MoveActionsIndex(pos) ==
    CHOOSE i \in 1..Len(move_actions) :
        move_with_reach(objects[Monster].movement[1], move_actions[i])
            = Some(<<pos[1] - MonsterPos[1], pos[2] - MonsterPos[2]>>)

C18_ClosestEuclid ==
    (Approaching /\ Len(Candidates) > 0) =>
        \A c \in CandidateSet : EuclidSq(TargetPos, Chosen) <= EuclidSq(TargetPos, c)


-----------------------------------------------------------------------------
\* C19: a step along a path moves the monster by at most one cell on each
\* axis and never onto a cell that is blocked at that moment: when the path
\* has fewer than two points or its second point is blocked the step is the
\* zero offset, and the turn completes all the same.
StepDecided ==
    /\ Decided.kind = "Move"
    /\ Decided.movement.kind = "Move"

\* the tile the monster paths towards on this turn
PathTarget ==
    IF BehaviorIs("Investigating") THEN InvestigatedTarget ELSE Chosen

C19_StepDecision ==
    (Deciding /\ StepDecided) =>
        LET offset == Decided.movement.offset
            path == astar(MonsterPos, PathTarget)
        IN /\ offset[1] \in {0 - 1, 0, 1}
           /\ offset[2] \in {0 - 1, 0, 1}
           /\ offset # <<0, 0>> => ~data_is_blocked_tile(add_pos(MonsterPos, offset))
           /\ (Len(path) < 2 \/ data_is_blocked_tile(path[2])) => offset = <<0, 0>>
           /\ ENABLED AiApplyActions

C19_StepApplication ==
    (AiApplyActions /\ StepDecided) =>
        LET dx == objects'[Monster].pos[1] - MonsterPos[1]
            dy == objects'[Monster].pos[2] - MonsterPos[2]
        IN /\ <<dx, dy>> = Decided.movement.offset
           /\ Abs(dx) <= 1 /\ Abs(dy) <= 1
           /\ <<dx, dy>> # <<0, 0>> => ~data_is_blocked_tile(objects'[Monster].pos)
           /\ \A id \in ObjectIds \ {Monster} : objects'[id] = objects[id]

C19_OneFreeCellPerTurn == [](C19_StepDecision) /\ [][C19_StepApplication]_vars

\* the second point of the path is blocked and the monster has stayed where
\* it stood, the Move being logged
C19_Witness ==
    /\ Applied /\ StepDecided
    /\ Decided.movement.offset = <<0, 0>>
    /\ Len(astar(MonsterPos, PathTarget)) > 1
    /\ data_is_blocked_tile(astar(MonsterPos, PathTarget)[2])
    /\ MonsterPos = MonsterStart
    /\ Len(msg_log) = 1 /\ msg_log[1].msg = "Moved"

\* the monster has stepped diagonally onto a free cell
C19_DiagonalStepReached ==
    /\ Applied /\ StepDecided
    /\ Abs(Decided.movement.offset[1]) = 1 /\ Abs(Decided.movement.offset[2]) = 1
    /\ MonsterPos = add_pos(MonsterStart, Decided.movement.offset)

\* there is no path and the monster stays
C19_NoPathReached ==
    /\ Deciding /\ StepDecided
    /\ astar(MonsterPos, PathTarget) = <<>>
    /\ Decided.movement.offset = <<0, 0>>


-----------------------------------------------------------------------------
\* C20: the behaviour of an object changes only when a StateChange is
\* applied: the decision of a turn leaves the behaviour, the position and the
\* alive flag of every object as they were, also when an Investigating
\* monster hears a sound.
SameBehaviorPosAlive ==
    \A id \in ObjectIds :
        /\ objects'[id].behavior = objects[id].behavior
        /\ objects'[id].pos = objects[id].pos
        /\ objects'[id].alive = objects[id].alive

C20_DecisionReadsOnly == AiTakeTurn(Monster) => SameBehaviorPosAlive

C20_ChangeByStateChange ==
    (\E id \in ObjectIds : objects'[id].behavior # objects[id].behavior) =>
        (AiApplyActions /\ Decided.kind = "StateChange")

C20_BehaviorChangesOnlyWhenApplied ==
    [][C20_DecisionReadsOnly]_vars /\ [][C20_ChangeByStateChange]_vars

\* what holds: the decision changes at most the behaviour of the monster, and
\* that only for an Investigating monster out of sight of the player that
\* hears a sound, whose position becomes its target
C20_DecisionWritesHeardSound ==
    [][AiTakeTurn(Monster) =>
          /\ \A id \in ObjectIds :
                /\ objects'[id].pos = objects[id].pos
                /\ objects'[id].alive = objects[id].alive
                /\ id # Monster => objects'[id] = objects[id]
          /\ objects'[Monster].behavior # objects[Monster].behavior =>
                /\ BehaviorIs("Investigating")
                /\ ~SeesPlayer
                /\ \E s \in Heard : objects'[Monster].behavior = Some(Investigating(s))]_vars



-----------------------------------------------------------------------------
(* C21 *)

\* the messages appended by the step
Appended == SubSeq(msg_log', Len(msg_log) + 1, Len(msg_log'))

\* the number of objects of the round whose action has been applied
Processed == ai_round.done + (IF call.op = "ai_apply_actions" THEN 1 ELSE 0)

\* the application of an action appends one message of the object for a Move
\* or a StateChange and none otherwise; no other step touches the log
C21_OneRecordPerAction ==
    IF call'.op = "ai_apply_actions"
    THEN /\ Len(msg_log') >= Len(msg_log)
         /\ SubSeq(msg_log', 1, Len(msg_log)) = msg_log
         /\ IF turn[1].kind \in {"Move", "StateChange"}
            THEN Len(Appended) = 1 /\ Appended[1].object = call.monster_handle
            ELSE Appended = <<>>
    ELSE msg_log' = msg_log

\* the messages name the objects in the order in which they were processed:
\* message i belongs to the f[i]-th turn of the round, with f increasing
C21_LogInOrder ==
    \E f \in [1..Len(msg_log) -> 1..Processed] :
        /\ \A i \in 1..Len(msg_log) : msg_log[i].object = ai_round.ids[f[i]]
        /\ \A i, j \in 1..Len(msg_log) : i < j => f[i] < f[j]

\* a decision starts with no turn under way, and the application that follows
\* it is the one of the same object
C21_TurnsDoNotOverlap ==
    /\ call'.op = "ai_take_turn" => (call.op = "none" /\ turn = None)
    /\ call'.op = "ai_apply_actions" =>
          (call.op = "ai_take_turn" /\ call'.monster_handle = call.monster_handle)

-----------------------------------------------------------------------------
(* C22 *)

\* the monster is controlled by the Ai
AiControlled == objects[Monster].ai = Some("Basic")

\* the monster has no behaviour
NoBehavior == objects[Monster].behavior = None

\* the program stops at a panic: no step follows it
PanicEndsTurn == turn # Some(Panic)

\* C22 as stated: the turn of an Ai-controlled monster without a behaviour
\* ends in a panic in every world
C22_NoBehaviorAlwaysFatal ==
    [][(AiTakeTurn(Monster) /\ AiControlled /\ NoBehavior) => turn' = Some(Panic)]_vars

\* the decision of a monster without a behaviour
C22_NoBehaviorDecision ==
    (AiTakeTurn(Monster) /\ AiControlled /\ NoBehavior) =>
        /\ turn' = IF find_player = None \/ is_within_bounds(MonsterPos)
                   THEN Some(Panic)
                   ELSE Some(NoAction)
        /\ objects' = objects
        /\ msg_log' = msg_log

\* C22 (amended): for an Ai-controlled monster without a behaviour, resolving
\* the turn is fatal when the monster stands inside the grid or there is no
\* player, and nothing is applied after it; when there is a player and the
\* monster stands outside the grid, the turn resolves to NoAction.
C22_NoBehaviorFatalInsideGrid ==
    [][C22_NoBehaviorDecision]_vars /\ [][PanicEndsTurn]_vars

\* a monster without a behaviour, inside the grid and with a player in the
\* world, has taken its turn and the turn has ended in a panic
C22_Witness ==
    /\ Deciding
    /\ AiControlled /\ NoBehavior
    /\ find_player # None
    /\ is_within_bounds(MonsterPos)
    /\ turn = Some(Panic)

\* a monster without a behaviour, outside the grid, does nothing and no
\* panic occurs
C22_OffGridSilent ==
    /\ Applied
    /\ AiControlled /\ NoBehavior
    /\ ~is_within_bounds(MonsterPos)
    /\ turn = Some(NoAction)

-----------------------------------------------------------------------------
(* C23 *)

\* the decision in a world without a player
C23_NoPlayerDecision ==
    (AiTakeTurn(Monster) /\ AiControlled /\ find_player = None) =>
        /\ turn' = Some(Panic)
        /\ objects' = objects
        /\ msg_log' = msg_log

\* C23: when there is no player, resolving the turn of an Ai-controlled
\* monster ends in a panic before an Action is produced, and nothing is
\* applied or logged after it: the turn is never skipped silently.
C23_NoPlayerFatal ==
    [][C23_NoPlayerDecision]_vars /\ [][PanicEndsTurn]_vars

\* an Idle monster inside the grid has taken its turn in a world without a
\* player, and the turn has ended in a panic
C23_Witness ==
    /\ Deciding
    /\ AiControlled
    /\ find_player = None
    /\ BehaviorIs("Idle")
    /\ is_within_bounds(MonsterPos)
    /\ turn = Some(Panic)
    /\ msg_log = <<>>

-----------------------------------------------------------------------------
(* C24 *)

OffGrid == ~is_within_bounds(MonsterPos)

\* the decision of a monster outside the grid: NoAction whenever the turn
\* resolves (without a player it ends in a panic, C23)
C24_OffGridDecision ==
    (AiTakeTurn(Monster) /\ OffGrid) =>
        /\ turn' = IF AiControlled /\ find_player = None
                   THEN Some(Panic)
                   ELSE Some(NoAction)
        /\ objects' = objects
        /\ msg_log' = msg_log

\* applying the turn of a monster outside the grid changes nothing
C24_OffGridApplication ==
    (AiApplyActions /\ OffGrid) =>
        /\ turn[1] = NoAction
        /\ objects' = objects
        /\ msg_log' = msg_log

\* C24: a monster whose position is outside the grid takes no action: its
\* turn resolves to NoAction, and applying it changes no position, no
\* behaviour and no log.
C24_OffGridNoAction ==
    [][C24_OffGridDecision]_vars /\ [][C24_OffGridApplication]_vars

\* a monster at (-1, -1) that is Attacking the player has had its turn
\* applied: the turn was NoAction and nothing was logged
C24_Witness ==
    /\ Applied
    /\ AiControlled
    /\ MonsterPos = <<0 - 1, 0 - 1>>
    /\ BehaviorIs("Attacking")
    /\ find_player # None
    /\ turn = Some(NoAction)
    /\ msg_log = <<>>


-----------------------------------------------------------------------------
(* C25 *)

\* the Momentum value
Self == momentum

\* every call made so far was moved(1, 0)
OnlyMovedRight ==
    \A i \in 1..Len(momentum_calls) :
        momentum_calls[i] = [op |-> "moved", dx |-> 1, dy |-> 0]

\* C25: starting from momentum (0, 0), after n consecutive calls moved(1, 0)
\* the magnitude is min(n, max): the momentum builds by one per move and
\* saturates at max.
C25_BuildsToMax ==
    OnlyMovedRight =>
        /\ magnitude(Self) = Min(Len(momentum_calls), Self.max)
        /\ Self.mx = Min(Len(momentum_calls), Self.max)
        /\ Self.my = 0

\* moved(1, 0) was called three times on the default Momentum, one time more
\* than its max, and the momentum stands at the max
C25_Witness ==
    /\ OnlyMovedRight
    /\ Len(momentum_calls) = MAX_MOMENTUM + 1
    /\ Self.max = MAX_MOMENTUM
    /\ magnitude(Self) = MAX_MOMENTUM

\* moved(1, 0) was called fewer times than max, and the momentum still builds
C25_BuildingReached ==
    /\ OnlyMovedRight
    /\ momentum_calls # <<>>
    /\ Len(momentum_calls) < Self.max
    /\ magnitude(Self) = Len(momentum_calls)


-----------------------------------------------------------------------------
(* C26 *)

\* the displacement d opposes the stored momentum m: they have opposite signs
Opposes(d, m) == (d > 0 /\ m < 0) \/ (d < 0 /\ m > 0)

\* an axis after moved as the claim has it
AxisAsClaimed(m, d, max) ==
    IF Opposes(d, m) THEN 0 ELSE clamp(m + signum(d), 0 - max, max)

\* the step is a call of moved
MovedCalled == call'.op = "moved" /\ momentum_calls' # momentum_calls

\* C26: moved(dx, dy) treats each axis on its own: an axis is set to zero
\* when the direction on that axis opposes the sign of the stored momentum and
\* becomes clamp(stored + signum(d), -max, max) otherwise; a move with a zero
\* component on an axis leaves the momentum of that axis unchanged.
C26_AxesIndependentZeroKeeps ==
    [][MovedCalled =>
          /\ momentum'.mx = AxisAsClaimed(momentum.mx, call'.dx, momentum.max)
          /\ momentum'.my = AxisAsClaimed(momentum.my, call'.dy, momentum.max)
          /\ momentum'.max = momentum.max]_vars

\* what the code does: an axis with momentum is also set to zero by a move
\* with no component on it; each axis depends on its own component only
C26_ZeroComponentClears ==
    [][MovedCalled =>
          /\ momentum'.mx = IF momentum.mx # 0 /\ call'.dx = 0
                            THEN 0
                            ELSE AxisAsClaimed(momentum.mx, call'.dx, momentum.max)
          /\ momentum'.my = IF momentum.my # 0 /\ call'.dy = 0
                            THEN 0
                            ELSE AxisAsClaimed(momentum.my, call'.dy, momentum.max)
          /\ momentum'.max = momentum.max]_vars

\* moved(1, 0) and then moved(0, 1): the momentum along x is gone
C26_SidewaysMoveCleared ==
    /\ momentum_calls = <<[op |-> "moved", dx |-> 1, dy |-> 0],
                          [op |-> "moved", dx |-> 0, dy |-> 1]>>
    /\ Self.mx = 0
    /\ Self.my = 1

-----------------------------------------------------------------------------
(* C27 *)

\* both axes lie in [-max, max]
WithinMax(self) ==
    /\ 0 - self.max <= self.mx /\ self.mx <= self.max
    /\ 0 - self.max <= self.my /\ self.my <= self.max

\* the Momentum was created by Momentum::default
FromDefault == Self.max = MAX_MOMENTUM

\* C27: in every state reached from the default Momentum by calls of moved,
\* clear and set_momentum, mx and my lie in [-max, max].
C27_AlwaysWithinMax == FromDefault => WithinMax(Self)

\* what holds: without a call of set_momentum both axes stay in [-max, max],
\* whatever the max
C27_WithinMaxWithoutSet ==
    (\A i \in 1..Len(momentum_calls) : momentum_calls[i].op # "set_momentum")
        => WithinMax(Self)

\* set_momentum has put the default Momentum outside [-max, max]
C27_SetOutsideReached ==
    /\ FromDefault
    /\ momentum_calls = <<[op |-> "set_momentum", mx |-> MaxMomentum + 1, my |-> 0]>>
    /\ Self.mx > Self.max

-----------------------------------------------------------------------------
(* C28 *)

\* C28: at_maximum() is true exactly when magnitude() equals the max field of
\* the Momentum value, also for a max other than the default.
C28_AtMaximumIffOwnMax ==
    call.op = "at_maximum" => (call.result <=> (magnitude(Self) = Self.max))

\* what the code does: at_maximum compares with MAX_MOMENTUM
C28_AtMaximumIffConstant ==
    call.op = "at_maximum" => (call.result <=> (magnitude(Self) = MAX_MOMENTUM))

\* a Momentum with a max above MAX_MOMENTUM has built up to its max, and
\* at_maximum has answered false
C28_OwnMaxNotSeen ==
    /\ call.op = "at_maximum"
    /\ Self.max > MAX_MOMENTUM
    /\ magnitude(Self) = Self.max
    /\ WithinMax(Self)
    /\ ~call.result


-----------------------------------------------------------------------------
(* C29 *)

\* the Vec<Pos> returned
Returned == reach_offsets[1]

\* the points of the Vec
Points(seq) == {seq[i] : i \in 1..Len(seq)}

NoDuplicates(seq) == \A i, j \in 1..Len(seq) : i # j => seq[i] # seq[j]

Chebyshev(p) == Max(Abs(p[1]), Abs(p[2]))

\* the unit steps of the eight directions
UnitSteps == {into_move(dir) : dir \in Directions}

\* offsets has been called on a Reach of the kind
OffsetsOf(kind) == call.op = "offsets" /\ call.reach.kind = kind

\* C29 as stated: Single(d).offsets() returns exactly 8 points, each at
\* Chebyshev distance d from the origin, one for each of the 8 directions,
\* without duplicates and without the origin
C29_SingleEightAtDistance ==
    OffsetsOf("Single") =>
        /\ Len(Returned) = 8
        /\ \A p \in Points(Returned) : Chebyshev(p) = call.reach.dist
        /\ Points(Returned) = {Scale(call.reach.dist, u) : u \in UnitSteps}
        /\ NoDuplicates(Returned)
        /\ <<0, 0>> \notin Points(Returned)

\* C29 (amended): Single(d).offsets() returns 8 * d points: for each of the
\* 8 directions the points at the Chebyshev distances 1..d on the straight
\* line from the origin, without duplicates and without the origin; they are
\* the 8 points at distance d only for d = 1.
C29_SingleLinesToDistance ==
    OffsetsOf("Single") =>
        /\ Len(Returned) = 8 * call.reach.dist
        /\ Points(Returned) =
              {Scale(k, u) : k \in 1..call.reach.dist, u \in UnitSteps}
        /\ NoDuplicates(Returned)
        /\ <<0, 0>> \notin Points(Returned)

\* offsets of Single(2) has returned 16 points, among them (1, 0) at
\* distance 1
C29_Witness ==
    /\ OffsetsOf("Single")
    /\ call.reach.dist = 2
    /\ Len(Returned) = 16
    /\ <<1, 0>> \in Points(Returned)
    /\ <<2, 2>> \in Points(Returned)

-----------------------------------------------------------------------------
(* C30 *)

\* the points on the two axes at the distances 1..d
CardinalPoints(d) ==
    {Scale(k, into_move(dir)) : k \in 1..d, dir \in {dir \in Directions : horiz(dir)}}

\* how often the point stands in the Vec
Occurrences(seq, p) == Cardinality({i \in 1..Len(seq) : seq[i] = p})

\* C30 as stated: Horiz(d).offsets() contains every cardinal point at the
\* distances 1..d, consists of exactly 4 * d points, and contains no diagonal
\* point and no point off the two axes
C30_HorizFourPerDistance ==
    OffsetsOf("Horiz") =>
        /\ CardinalPoints(call.reach.dist) \subseteq Points(Returned)
        /\ Len(Returned) = 4 * call.reach.dist
        /\ \A p \in Points(Returned) : p[1] = 0 \/ p[2] = 0

\* C30 (amended): Horiz(d).offsets() contains every cardinal point at the
\* distances 1..d and no other point (4 * d different points, none diagonal
\* or off the two axes), but the Vec has 2 * d * (d + 1) entries: the point at
\* distance k stands in it d - k + 1 times.
C30_HorizCardinalRepeated ==
    OffsetsOf("Horiz") =>
        /\ Points(Returned) = CardinalPoints(call.reach.dist)
        /\ Cardinality(Points(Returned)) = 4 * call.reach.dist
        /\ \A p \in Points(Returned) : (p[1] = 0 \/ p[2] = 0) /\ p # <<0, 0>>
        /\ Len(Returned) = 2 * call.reach.dist * (call.reach.dist + 1)
        /\ \A p \in Points(Returned) :
              Occurrences(Returned, p) = call.reach.dist - Chebyshev(p) + 1

\* offsets of Horiz(2) has returned 12 entries for 8 points, (1, 0) twice
C30_Witness ==
    /\ OffsetsOf("Horiz")
    /\ call.reach.dist = 2
    /\ Len(Returned) = 12
    /\ Cardinality(Points(Returned)) = 8
    /\ Occurrences(Returned, <<1, 0>>) = 2


-----------------------------------------------------------------------------
(* C31 *)

\* the points on the four diagonals at the distances 1..d
DiagonalPoints(d) ==
    {Scale(k, into_move(dir)) : k \in 1..d, dir \in {dir \in Directions : diag(dir)}}

\* C31: every point of Diag(d).offsets() lies on a diagonal, |x| = |y|
\* between 1 and d, and every diagonal point at each distance 1..d in all
\* four diagonal directions is among them.
C31_DiagAllDistances ==
    OffsetsOf("Diag") =>
        /\ \A p \in Points(Returned) :
              Abs(p[1]) = Abs(p[2]) /\ 1 <= Abs(p[1]) /\ Abs(p[1]) <= call.reach.dist
        /\ DiagonalPoints(call.reach.dist) \subseteq Points(Returned)

\* offsets of Diag(3) has returned the points at the distances 1, 2 and 3
\* of a diagonal
C31_Witness ==
    /\ OffsetsOf("Diag")
    /\ call.reach.dist = 3
    /\ {<<0 - 1, 1>>, <<0 - 2, 2>>, <<0 - 3, 3>>} \subseteq Points(Returned)
    /\ Cardinality(Points(Returned)) = 12


-----------------------------------------------------------------------------
(* C32 *)

\* the origin and the offset of the last check_collision
CollisionOrigin == IF call.op = "calculate_move" THEN MoverPos ELSE call.pos

CollisionDelta ==
    IF call.op = "calculate_move" THEN delta_pos[1] ELSE <<call.dx, call.dy>>

\* check_collision has reported an entity
EntityReported == move_result # None /\ Collision.entity # None

\* the place of a position on the movement line; the origin has place 0
PlaceOnLine(p) ==
    LET l == line_inclusive(CollisionOrigin, add_pos(CollisionOrigin, CollisionDelta))
    IN IF p = CollisionOrigin THEN 0 ELSE CHOOSE i \in 1..Len(l) : l[i] = p

\* C32: when check_collision finds a blocking entity on the movement line,
\* the position it reports is the last free position, the point of the line
\* just before the entity (the origin only when the entity stands on the
\* first point), for lines of any length.
C32_ReportsPointBeforeEntity ==
    EntityReported =>
        Collision.move_pos = BeforeOnLine(CollisionOrigin, CollisionDelta, BlockerPos)

\* what the code does: the position reported with an entity is the origin
C32_ReportsOrigin == EntityReported => Collision.move_pos = CollisionOrigin

\* an entity two tiles away was found and the origin was reported
C32_FarEntityReached ==
    /\ EntityReported
    /\ PlaceOnLine(BlockerPos) >= 2
    /\ Collision.move_pos = CollisionOrigin

-----------------------------------------------------------------------------
(* C33 *)

\* the blocking entities on the movement line
BlockersOnLine ==
    LET l == line_inclusive(CollisionOrigin, add_pos(CollisionOrigin, CollisionDelta))
    IN {id \in EntityIds : entities.blocks[id] /\ \E i \in 1..Len(l) : l[i] = entities.pos[id]}

\* the entity reported is the first blocking entity on the line
FirstBlockerReported ==
    /\ Collision.entity[1] \in BlockersOnLine
    /\ \A id \in BlockersOnLine : PlaceOnLine(BlockerPos) <= PlaceOnLine(entities.pos[id])

\* the entity reported stands beyond the last free position of the wall hit
BeyondWall == PlaceOnLine(BlockerPos) > PlaceOnLine(Collision.blocked[1].start_pos)

\* C33: check_collision stops at the first hit along the line: an entity is
\* reported only if it is the first blocking entity on the line, and with a
\* wall hit no entity beyond the wall's last free position is reported, also
\* when the wall is next to the origin.
C33_StopsAtFirstHit ==
    EntityReported =>
        /\ FirstBlockerReported
        /\ Collision.blocked # None => ~BeyondWall

\* what the code does: an entity beyond the wall is reported exactly when the
\* wall is next to the origin, whose position is no point of the line
C33_StopsUnlessWallAtOrigin ==
    EntityReported =>
        /\ FirstBlockerReported
        /\ Collision.blocked # None =>
              (BeyondWall <=> Collision.blocked[1].start_pos = CollisionOrigin)

\* a wall next to the origin and an entity behind it have both been reported
C33_BehindAdjacentWallReached ==
    /\ EntityReported
    /\ Collision.blocked # None
    /\ Collision.blocked[1].start_pos = CollisionOrigin
    /\ BeyondWall

-----------------------------------------------------------------------------
(* C34 *)

\* a blocking entity other than the mover stands on the position
OccupiedByOther(pos) ==
    \E id \in EntityIds \ {call.entity_id} : entities.blocks[id] /\ entities.pos[id] = pos

\* the Movement returned carries no attack
MovesWithoutAttack == Moved /\ movement # None /\ movement[1].attack = None

\* C34: calculate_move never returns a Movement without an attack whose
\* destination is occupied by a blocking entity other than the mover,
\* whatever the places of wall and entity on the line, also with the entity
\* on the wall's last free position.
C34_NeverOntoEntity == MovesWithoutAttack => ~OccupiedByOther(movement[1].pos)

\* what the code does: the destination is occupied in two cases only: the
\* entity stands on the last free position of the wall hit (a Move onto it),
\* or it stands right behind a ShortWall that a running mover jumps
C34_OntoEntityOnlyAtWall ==
    MovesWithoutAttack /\ OccupiedByOther(movement[1].pos) =>
        \/ /\ WallAndEntity
           /\ BlockerPos = Collision.blocked[1].start_pos
           /\ movement[1].typ = "Move"
        \/ /\ WallOnly
           /\ movement[1].typ = "JumpWall"
           /\ movement[1].pos = Collision.blocked[1].end_pos

\* a running mover jumps a ShortWall onto the tile of the entity behind it
C34_JumpOntoEntityReached ==
    /\ MovesWithoutAttack
    /\ WallOnly
    /\ movement[1].typ = "JumpWall"
    /\ OccupiedByOther(movement[1].pos)

\* the mover is sent onto the tile of the entity before the wall
C34_OntoEntityReached ==
    /\ MovesWithoutAttack
    /\ WallAndEntity
    /\ movement[1].pos = BlockerPos
    /\ movement[1].pos # MoverPos


-----------------------------------------------------------------------------
(* C37 *)

\* move_with_reach has been called on a Reach built by the constructor
MovedWithBuilt(name) == call.op = "move_with_reach" /\ call.built_by = name

\* the kind a constructor is named after
NamedKind(name) ==
    CASE name = "single" -> "Single" [] name = "diag" -> "Diag" [] name = "horiz" -> "Horiz"

\* C37: the constructors build the shape they are named after, single(d) =
\* Single(d), diag(d) = Diag(d), horiz(d) = Horiz(d), so a reach built with
\* diag(d) permits only diagonal directions and one built with horiz(d) only
\* cardinal directions.
C37_ConstructorsBuildTheirShape ==
    /\ call.op \in {"single", "diag", "horiz"} =>
          call.result = Reach(NamedKind(call.op), call.dist)
    /\ MovedWithBuilt("diag") => (call.result # None <=> diag(call.action))
    /\ MovedWithBuilt("horiz") => (call.result # None <=> horiz(call.action))

\* what the code does: every constructor builds Single(d), which permits all
\* eight directions
C37_ConstructorsBuildSingle ==
    /\ call.op \in {"single", "diag", "horiz"} => call.result = Reach("Single", call.dist)
    /\ call.op = "move_with_reach" =>
          call.result = Some(Scale(call.dist, into_move(call.action)))

\* a reach built with diag(2) has let the mover go to the right
C37_DiagGoesRightReached ==
    /\ MovedWithBuilt("diag")
    /\ call.dist = 2
    /\ call.action = "Right"
    /\ call.result = Some(<<2, 0>>)

-----------------------------------------------------------------------------
(* C38 *)

ClosestCalled == call.op = "closest_to"

\* the positions the reach leads to from pos, in the order of offsets()
ReachedFrom == [i \in 1..Len(Returned) |-> add_pos(call.pos, Returned[i])]

\* C38: closest_to(pos, other) returns a position pos + offset for an offset
\* of offsets(), no other pos + offset is strictly closer to other, and among
\* the equally close ones the first in the order of offsets() is returned.
C38_ClosestOfReached ==
    ClosestCalled =>
        \E i \in 1..Len(ReachedFrom) :
            /\ call.result = ReachedFrom[i]
            /\ \A j \in 1..Len(ReachedFrom) :
                  distance(call.other, ReachedFrom[j]) >= distance(call.other, ReachedFrom[i])
            /\ \A j \in 1..(i - 1) :
                  distance(call.other, ReachedFrom[j]) > distance(call.other, ReachedFrom[i])

\* what the code does: the first offset itself, not moved to pos, competes
\* as the first candidate
C38_ClosestOfFirstOffsetAndReached ==
    ClosestCalled =>
        LET candidates == <<Returned[1]>> \o ReachedFrom
        IN \E i \in 1..Len(candidates) :
              /\ call.result = candidates[i]
              /\ \A j \in 1..Len(candidates) :
                    distance(call.other, candidates[j]) >= distance(call.other, candidates[i])
              /\ \A j \in 1..(i - 1) :
                    distance(call.other, candidates[j]) > distance(call.other, candidates[i])

\* closest_to((5, 5), (0, 1)) of Single(1) has returned the offset (0, 1),
\* which the reach does not lead to from (5, 5)
C38_OffsetReturnedReached ==
    /\ ClosestCalled
    /\ call.reach = Reach("Single", 1)
    /\ call.pos = <<5, 5>>
    /\ call.other = <<0, 1>>
    /\ call.result = <<0, 1>>
    /\ call.result \notin Points(ReachedFrom)


-----------------------------------------------------------------------------
(* C39 *)

\* the inputs that play the game
GameplayInputs == {"Move", "Pickup", "MapClick", "Yell", "IncreaseMoveMode", "DecreaseMoveMode"}

\* this step is handle_input called with a gameplay input while the player
\* is not alive
DeadPlayerInput ==
    /\ call'.op = "handle_input"
    /\ call'.input_action.kind \in GameplayInputs
    /\ ~game.alive

\* the step leaves the player's inventory, move mode and reach as they were
PlayerKept ==
    /\ game'.inventory = game.inventory
    /\ entities'.move_mode[Player] = entities.move_mode[Player]
    /\ game'.movement = game.movement

\* C39: when the player is not alive, handle_input returns NoAction for
\* every gameplay input (Move, Pickup, MapClick, Yell, a change of move mode)
\* and leaves the player's inventory, move mode and reach unchanged.
C39_DeadPlayerDoesNothing ==
    [][DeadPlayerInput => (call'.player_turn = NoAction /\ PlayerKept)]_vars

\* what the code does: every gameplay input but MapClick does nothing for a
\* dead player; a MapClick throws the first stone of the inventory, if there
\* is one, and takes it out of the inventory
C39_DeadPlayerStillThrows ==
    [][DeadPlayerInput =>
         /\ entities'.move_mode[Player] = entities.move_mode[Player]
         /\ game'.movement = game.movement
         /\ IF call'.input_action.kind = "MapClick" /\ stone_index(game.inventory) # 0
            THEN /\ call'.player_turn =
                        ActionThrowStone(call'.input_action.map_cell,
                                         game.inventory[stone_index(game.inventory)])
                 /\ game'.inventory = remove(game.inventory, stone_index(game.inventory))
            ELSE /\ call'.player_turn = NoAction
                 /\ game'.inventory = game.inventory]_vars

\* a dead player has thrown the stone it held second in the inventory
C39_DeadPlayerThrewReached ==
    /\ call.op = "handle_input"
    /\ ~call.player_alive
    /\ call.player_turn = ActionThrowStone(<<7, 5>>, "stone")
    /\ game.inventory = <<"potion">>


-----------------------------------------------------------------------------
(* C35 *)

PlayerAlive == objects[Player].alive

\* a walkable path leads from the monster to the player
PlayerReachable == astar(MonsterPos, PlayerPos) # <<>>

\* the monster has decided on an attack
AttackEmitted ==
    /\ turn # None
    /\ Decided.kind = "Move"
    /\ Decided.movement.kind = "Attack"

\* turns keep being taken: again and again the monster is given its turn
TurnsKeepBeingTaken == []<>(call.op = "ai_take_turn")

\* C35: with a live player that stands still, stays in the monster's field
\* of view and can be reached by a walkable path, a monster that is Attacking
\* eventually emits an attack on the player when turns keep being taken; it
\* does not go round between Attacking and Investigating for ever.
C35_AttackEventually ==
    (/\ BehaviorIs("Attacking")
     /\ [](PlayerAlive /\ SeesPlayer /\ PlayerReachable)
     /\ TurnsKeepBeingTaken)
        => <>AttackEmitted

\* a wall lies on the straight line from the monster to the player
WallOnLine ==
    is_blocked_by_wall(MonsterPos, PlayerPos[1] - MonsterPos[1],
                       PlayerPos[2] - MonsterPos[2]) # None

\* the monster that set out Attacking with a reach of Horiz(2) and was sent
\* to Investigating by the wall on the line has been turned back to Attacking
\* where it stood, the player in view and reachable
C35_TurnedBackReached ==
    /\ call.op = "ai_apply_actions"
    /\ Decided = [kind |-> "StateChange", behavior |-> Attacking(Player)]
    /\ MonsterPos = MonsterStart
    /\ WallOnLine
    /\ PlayerAlive /\ SeesPlayer /\ PlayerReachable
    /\ objects[Monster].attack = Some(Reach("Horiz", 2))
    /\ ai_can_hit_target(MonsterPos, PlayerPos, objects[Monster].attack[1]) = None
-----------------------------------------------------------------------------
(* C36 *)

\* the number of steps of the walkable path from the monster to the
\* position it investigates
StepsToTarget == Len(astar(MonsterPos, InvestigatedTarget)) - 1

\* the monster investigates a position that a walkable path leads to, the
\* player out of its view and no sound to be heard
Searching ==
    /\ BehaviorIs("Investigating")
    /\ astar(MonsterPos, InvestigatedTarget) # <<>>
    /\ ~SeesPlayer
    /\ sounds = {}

\* the monster stands on the position it investigated and has decided to be
\* Idle
Arrived ==
    /\ turn # None
    /\ Decided = [kind |-> "StateChange", behavior |-> Idle]
    /\ BehaviorIs("Investigating")
    /\ MonsterPos = InvestigatedTarget

=============================================================================
